---------------------------- MODULE Spec2Model ----------------------------
(***************************************************************************)
(* A state-machine model of the blackjack engine of rbrabson/blackjack:    *)
(* Hand (hand.go), Player (Player type), Dealer, Shoe (shoe.go),           *)
(* DefaultChipManager (chipmanager.go) and the round orchestrator Game     *)
(* (game.go, the version with per-hand betting, lines 396-821).            *)
(*                                                                         *)
(* Cards are modelled by their rank only: the suit takes no part in any    *)
(* rule.  A shuffled pool is modelled by the cards left in it; the rank of *)
(* the front card is chosen among them when the card is drawn, which is    *)
(* how a uniformly shuffled pool looks to the code that draws from it.     *)
(***************************************************************************)
EXTENDS Integers, Sequences, FiniteSets, TLC

VARIABLES
    players,    \* Game.players: index -> Player (name, chips, hands, active, cursor)
    dealer,     \* Game.dealer.hand
    shoe,       \* Game.shoe: [cards (rank -> copies left), numDecks, cutCard]
    round,      \* Game.round
    last,       \* the call that produced this state: [op, p, res]
    phase,      \* history: where the caller is in the round protocol
    orderly,    \* history: the round so far followed bet -> deal -> turns -> dealer -> payout
    chips0      \* history: each player's chips when the round started

vars == <<players, dealer, shoe, round, last, phase, orderly, chips0>>

---------------------------------------------------------------------------
(* Bounds of the model *)

\* Players seated at the table (Game.AddPlayer calls before the first round).
NumPlayers == 1
\* Decks asked of New(numDecks).
NumDecks == 1
\* Chips given to each player (WithChips).
StartChips == 5
\* The largest amount a caller asks PlaceBet for.
MaxBet == 2
\* Copies of the rank 6 in one deck of the model (enough for a fourth pair).
PairCopies == 5
\* Copies of the rank 10 in one deck of the model.
TenCopies == 2
\* Copies of every other rank in one deck of the model.
RankCopies == 1
\* Rounds played in full; one more round is started and not played.
MaxRounds == 1
\* PayoutResults calls in one round.
MaxPayouts == 2
\* Cards a single hand may grow to.
MaxHandCards == 4
\* Length of a free-standing hand built card by card.
MaxFreeHand == 4
\* Length of each of the two hands EvaluateHand is applied to.
MaxEvalHand == 3

---------------------------------------------------------------------------
(* Cards *)

Ace   == 1
Jack  == 11
Queen == 12
King  == 13
\* every rank of the cards library
AllRanks == 1..13
\* the ranks the model's shoe deals
ShoeRanks == {Ace, 6, 10}

Max(a, b) == IF a > b THEN a ELSE b

\* a variant of TruncMul that rounds up
CeilMul(x, num, den) == (x * num + den - 1) \div den

\* Go's int(float64(x) * m) for x >= 0 and m = num/den: truncation toward zero
TruncMul(x, num, den) == (x * num) \div den

---------------------------------------------------------------------------
(* Hand: value *)

\* one arm of the switch in Hand.Value / Hand.IsSoft
CardPoints(rank) ==
    IF rank \in {Jack, Queen, King} THEN 10
    ELSE IF rank = Ace THEN 11
    ELSE rank

RECURSIVE RawValue(_)
\* the first loop of Hand.Value: every Ace counted as 11
RawValue(cards) ==
    IF cards = <<>> THEN 0
    ELSE CardPoints(Head(cards)) + RawValue(Tail(cards))

RECURSIVE AceCount(_)
AceCount(cards) ==
    IF cards = <<>> THEN 0
    ELSE (IF Head(cards) = Ace THEN 1 ELSE 0) + AceCount(Tail(cards))

\* a variant of the second loop that lowers at most one Ace
AdjustOneAce(value, aces) ==
    IF aces > 0 /\ value > 21 THEN value - 10 ELSE value

RECURSIVE AdjustAces(_, _)
\* the second loop of Hand.Value: for aces > 0 && value > 21 { value -= 10; aces-- }
AdjustAces(value, aces) ==
    IF aces > 0 /\ value > 21 THEN AdjustAces(value - 10, aces - 1) ELSE value

Value(cards) == AdjustAces(RawValue(cards), AceCount(cards))

IsBusted(cards) == Value(cards) > 21

IsSoft(cards) == AceCount(cards) > 0 /\ RawValue(cards) <= 21

---------------------------------------------------------------------------
(* Hand: lifecycle *)

NewHand ==
    [cards |-> <<>>, isSplit |-> FALSE, isActive |-> TRUE, isStood |-> FALSE,
     isSurrendered |-> FALSE, actions |-> <<>>, bet |-> 0, winnings |-> 0]

\* the log keeps the action types; cards, timestamps and details are not modelled
RecordAction(h, actionType) == [h EXCEPT !.actions = Append(@, actionType)]

AddCardWithAction(h, card, actionType) ==
    [h EXCEPT !.cards = Append(@, card), !.actions = Append(@, actionType)]

newSplitHand(card) ==
    AddCardWithAction([NewHand EXCEPT !.isSplit = TRUE], card, "deal")

\* Hand.AddCard records the card as a hit
AddCard(h, card) == AddCardWithAction(h, card, "hit")

Hit(h, card) == AddCardWithAction(h, card, "hit")

DealCard(h, card) == AddCardWithAction(h, card, "deal")

DoubleDownHit(h, card) == AddCardWithAction(h, card, "double")

Stand(h) ==
    RecordAction([h EXCEPT !.isStood = TRUE, !.isActive = FALSE], "stand")

\* Hand.Clear leaves actions and isSurrendered as they are
Clear(h) ==
    [h EXCEPT !.cards = <<>>, !.isSplit = FALSE, !.isActive = TRUE,
              !.isStood = FALSE, !.bet = 0, !.winnings = 0]

\* a variant of IsBlackjack that does not look at isSplit
IsBlackjackAnyTwo(h) == Len(h.cards) = 2 /\ Value(h.cards) = 21

IsBlackjack(h) == Len(h.cards) = 2 /\ Value(h.cards) = 21 /\ ~h.isSplit

---------------------------------------------------------------------------
(* DefaultChipManager, on the chip count *)

\* a variant of HasEnoughChips that finds every balance sufficient
HasEnoughChipsAlways(chips, amount) == TRUE

HasEnoughChips(chips, amount) == chips >= amount

\* a variant of AddChips that takes the amount instead of adding it
AddChipsAsDebit(chips, amount) == chips - amount

AddChips(chips, amount) == chips + amount

\* DeductChips fails when amount > chips; DeductOk is its nil-error case
DeductOk(chips, amount) == ~(amount > chips)

DeductChips(chips, amount) == IF amount > chips THEN chips ELSE chips - amount

---------------------------------------------------------------------------
(* Player and the betting operations of Hand, on a player record pl and   *)
(* the 1-based position i of the hand in pl.hands                          *)

NewPlayer(chips) ==
    [chips |-> chips, hands |-> <<NewHand>>, active |-> TRUE, currentHandIdx |-> 0]

\* p.hands[p.currentHandIdx], as a position of the sequence
Cur(pl) == pl.currentHandIdx + 1

CurrentHand(pl) == pl.hands[Cur(pl)]

\* a variant of ClearHand that empties every hand and keeps them all
ClearHandKeepingSplits(pl) ==
    [pl EXCEPT !.hands = [i \in 1..Len(@) |-> NewHand], !.currentHandIdx = 0]

ClearHand(pl) == [pl EXCEPT !.hands = <<NewHand>>, !.currentHandIdx = 0]

SetActive(pl, active) == [pl EXCEPT !.active = active]

\* Hand.PlaceBet: the error cases
PlaceBetFails(pl, amount) == amount <= 0 \/ ~HasEnoughChips(pl.chips, amount)

PlaceBet(pl, i, amount) ==
    [pl EXCEPT !.hands[i].bet = amount, !.chips = DeductChips(@, amount)]

WinBet(pl, i, num, den) ==
    LET bet      == pl.hands[i].bet
        winnings == TruncMul(bet, num, den)
    IN  [pl EXCEPT !.chips = AddChips(@, bet + winnings),
                   !.hands[i].winnings = winnings]

LoseBet(pl, i) == [pl EXCEPT !.hands[i].winnings = -pl.hands[i].bet]

PushBet(pl, i) ==
    [pl EXCEPT !.chips = AddChips(@, pl.hands[i].bet), !.hands[i].winnings = 0]

CanDoubleDown(pl, i) ==
    Len(pl.hands[i].cards) = 2 /\ HasEnoughChips(pl.chips, pl.hands[i].bet)

DoubleDown(pl, i) ==
    LET bet == pl.hands[i].bet
    IN  [pl EXCEPT !.chips = DeductChips(@, bet),
                   !.hands[i] = RecordAction(Stand([@ EXCEPT !.bet = bet * 2]), "double")]

\* a variant of CanSplit without the limit of four hands
CanSplitUnbounded(pl, i) ==
    LET h == pl.hands[i]
    IN  /\ ~(Len(h.cards) # 2 \/ ~HasEnoughChips(pl.chips, h.bet))
        /\ h.cards[1] = h.cards[2]

CanSplit(pl, i) ==
    LET h == pl.hands[i]
    IN  /\ ~(Len(pl.hands) >= 4 \/ Len(h.cards) # 2 \/ ~HasEnoughChips(pl.chips, h.bet))
        /\ h.cards[1] = h.cards[2]

\* Player.CanSplit, the guard Game.PlayerSplit uses
PlayerCanSplit(pl, i) ==
    Len(pl.hands) < 4 /\ CanSplit(pl, i) /\ HasEnoughChips(pl.chips, pl.hands[i].bet)

\* Hand.splitHand: the hand keeps its first card, the second goes to a new hand
splitHand(h) ==
    [kept  |-> [h EXCEPT !.cards = <<h.cards[1]>>, !.isSplit = TRUE],
     fresh |-> newSplitHand(h.cards[2])]

\* a variant of Split that takes no chips for the new hand
SplitFreeOfCharge(pl, i) ==
    LET logged     == RecordAction(pl.hands[i], "split")
        parts      == splitHand(logged)
        currentBet == parts.kept.bet
        newHand    == RecordAction([parts.fresh EXCEPT !.bet = currentBet], "split")
    IN  [pl EXCEPT !.hands = Append([@ EXCEPT ![i] = parts.kept], newHand)]

Split(pl, i) ==
    LET logged     == RecordAction(pl.hands[i], "split")
        parts      == splitHand(logged)
        currentBet == parts.kept.bet
        newHand    == RecordAction([parts.fresh EXCEPT !.bet = currentBet], "split")
    IN  [pl EXCEPT !.hands = Append([@ EXCEPT ![i] = parts.kept], newHand),
                   !.chips = DeductChips(@, currentBet)]

\* a variant of CanSurrender that does not count the player's hands
CanSurrenderAfterSplit(pl, i) ==
    LET h == pl.hands[i]
    IN  Len(h.cards) = 2 /\ ~h.isStood /\ ~IsBusted(h.cards)

CanSurrender(pl, i) ==
    LET h == pl.hands[i]
    IN  Len(pl.hands) = 1 /\ Len(h.cards) = 2 /\ ~h.isStood /\ ~IsBusted(h.cards)

Surrender(pl, i) ==
    LET currentBet == pl.hands[i].bet
        halfBet    == currentBet \div 2
    IN  [pl EXCEPT !.chips = AddChips(@, halfBet),
                   !.hands[i] = Stand(RecordAction([@ EXCEPT !.winnings = -halfBet],
                                                   "surrender"))]

\* the test MoveToNextActiveHand and HasActiveHands apply to a hand
Playable(h) == ~IsBusted(h.cards) /\ ~IsBlackjack(h) /\ ~h.isStood

IsStanding(pl) ==
    IF ~pl.active THEN TRUE
    ELSE LET currentHand == CurrentHand(pl)
         IN  IsBusted(currentHand.cards) \/ IsBlackjack(currentHand)
               \/ currentHand.isStood

HasActiveHands(pl) ==
    IF ~pl.active THEN FALSE
    ELSE \E i \in Cur(pl)..Len(pl.hands) : Playable(pl.hands[i])

\* the positions MoveToNextActiveHand's loop may stop at
LaterPlayable(pl) == {i \in (Cur(pl) + 1)..Len(pl.hands) : Playable(pl.hands[i])}

CanMoveToNextActiveHand(pl) == LaterPlayable(pl) # {}

\* a variant of MoveToNextActiveHand that steps to the next hand, playable or not
MoveToNextHand(pl) ==
    IF Cur(pl) < Len(pl.hands) THEN [pl EXCEPT !.currentHandIdx = @ + 1] ELSE pl

MoveToNextActiveHand(pl) ==
    IF LaterPlayable(pl) # {}
    THEN [pl EXCEPT !.currentHandIdx =
             (CHOOSE i \in LaterPlayable(pl) : \A j \in LaterPlayable(pl) : i <= j) - 1]
    ELSE pl

\* the tail shared by Game.PlayerStand and Game.PlayerSurrender
AdvanceOrFinish(pl) ==
    IF CanMoveToNextActiveHand(pl) THEN MoveToNextActiveHand(pl)
    ELSE SetActive(pl, FALSE)

---------------------------------------------------------------------------
(* Dealer *)

DealerHit(h, card) == AddCardWithAction(h, card, "hit")

DealerStand(h) ==
    [RecordAction(h, "stand") EXCEPT !.isStood = TRUE, !.isActive = FALSE]

\* a variant of ShouldHit that stands on 16
ShouldHitBelowSixteen(h) == ~IsBusted(h.cards) /\ Value(h.cards) <= 15

ShouldHit(h) ==
    LET value == Value(h.cards)
    IN  IF IsBusted(h.cards) THEN FALSE
        ELSE IF value >= 17 /\ ~IsSoft(h.cards) THEN FALSE
        ELSE IF value = 17 /\ IsSoft(h.cards) THEN TRUE
        ELSE IF value >= 18 THEN FALSE
        ELSE value <= 16

---------------------------------------------------------------------------
(* Shoe *)

\* CutCardPenetration = 0.75
CutNum == 3
CutDen == 4

\* the shuffled pool is kept as the number of cards of each rank still in it
Copies(rank) ==
    IF rank = 6 THEN PairCopies ELSE IF rank = 10 THEN TenCopies ELSE RankCopies

RECURSIVE Total(_, _)
Total(pool, ranks) ==
    IF ranks = {} THEN 0
    ELSE LET r == CHOOSE x \in ranks : TRUE
         IN  pool[r] + Total(pool, ranks \ {r})

\* cards.NewShoe(numDecks): numDecks decks
FullShoe(numDecks) == [r \in ShoeRanks |-> numDecks * Copies(r)]

\* the cards of one deck (52 in the cards library)
DeckSize == Total(FullShoe(1), ShoeRanks)

\* len(s.cards)
Remaining(s) == Total(s.cards, ShoeRanks)

\* the ranks the front card of a shuffled pool may have
Fronts(pool) == {r \in ShoeRanks : pool[r] > 0}

\* the pool after Draw took a card of rank r from its front
Drawn(pool, r) == [pool EXCEPT ![r] = @ - 1]

IsEmpty(s) == Remaining(s) = 0

NeedsReshuffle(s) == Remaining(s) <= (s.numDecks * DeckSize - s.cutCard)

\* a variant of Reshuffle that leaves the cut card where it was
ReshuffleWithoutCut(s) == [s EXCEPT !.cards = FullShoe(s.numDecks)]

Reshuffle(s) ==
    LET fresh == FullShoe(s.numDecks)
    IN  [s EXCEPT !.cards = fresh,
                  !.cutCard = TruncMul(Total(fresh, ShoeRanks), CutNum, CutDen)]

NewShoe(numDecks) ==
    Reshuffle([cards |-> [r \in ShoeRanks |-> 0], numDecks |-> Max(1, numDecks),
               cutCard |-> 0])

---------------------------------------------------------------------------
(* Game: pure parts *)

PlayerIds == 1..NumPlayers

\* a name no player carries: GetPlayer returns nil for it
Nobody == 0

Names == PlayerIds \cup {Nobody}

\* GetPlayer: the players are named by their position in Game.players
Found(name) == name \in PlayerIds

\* a variant of EvaluateHand that looks at the dealer's bust before the player's
EvaluateDealerBustFirst(playerHand, dealerHand) ==
    LET playerBlackjack == IsBlackjack(playerHand)
        dealerBlackjack == IsBlackjack(dealerHand)
        playerValue     == Value(playerHand.cards)
        dealerValue     == Value(dealerHand.cards)
    IN  CASE playerBlackjack /\ dealerBlackjack -> "Push"
          [] playerBlackjack /\ ~dealerBlackjack -> "PlayerBlackjack"
          [] ~playerBlackjack /\ dealerBlackjack -> "DealerBlackjack"
          [] OTHER ->
               IF IsBusted(dealerHand.cards) THEN "PlayerWin"
               ELSE IF IsBusted(playerHand.cards) THEN "DealerWin"
               ELSE IF playerValue > dealerValue THEN "PlayerWin"
               ELSE IF dealerValue > playerValue THEN "DealerWin"
               ELSE "Push"

EvaluateHand(playerHand, dealerHand) ==
    LET playerBlackjack == IsBlackjack(playerHand)
        dealerBlackjack == IsBlackjack(dealerHand)
        playerValue     == Value(playerHand.cards)
        dealerValue     == Value(dealerHand.cards)
    IN  CASE playerBlackjack /\ dealerBlackjack -> "Push"
          [] playerBlackjack /\ ~dealerBlackjack -> "PlayerBlackjack"
          [] ~playerBlackjack /\ dealerBlackjack -> "DealerBlackjack"
          [] OTHER ->
               IF IsBusted(playerHand.cards) THEN "DealerWin"
               ELSE IF IsBusted(dealerHand.cards) THEN "PlayerWin"
               ELSE IF playerValue > dealerValue THEN "PlayerWin"
               ELSE IF dealerValue > playerValue THEN "DealerWin"
               ELSE "Push"

\* a variant of the inner loop that pays a blackjack like a plain win
SettleHandEvenMoney(pl, i, dealerHand) ==
    IF pl.hands[i].bet = 0 THEN pl
    ELSE LET result == EvaluateHand(pl.hands[i], dealerHand)
         IN  CASE result \in {"PlayerWin", "PlayerBlackjack"} -> WinBet(pl, i, 1, 1)
               [] result = "Push"                              -> PushBet(pl, i)
               [] OTHER                                        -> LoseBet(pl, i)

\* the body of PayoutResults' inner loop for hand i of pl
SettleHand(pl, i, dealerHand) ==
    IF pl.hands[i].bet = 0 THEN pl
    ELSE LET result == EvaluateHand(pl.hands[i], dealerHand)
         IN  CASE result = "PlayerWin"       -> WinBet(pl, i, 1, 1)
               [] result = "PlayerBlackjack" -> WinBet(pl, i, 3, 2)
               [] result = "Push"            -> PushBet(pl, i)
               [] OTHER                      -> LoseBet(pl, i)

RECURSIVE SettleFrom(_, _, _)
\* PayoutResults' inner loop, from hand i on
SettleFrom(pl, i, dealerHand) ==
    IF i > Len(pl.hands) THEN pl
    ELSE SettleFrom(SettleHand(pl, i, dealerHand), i + 1, dealerHand)

IsRoundComplete ==
    \A p \in 1..Len(players) : ~(players[p].active /\ ~IsStanding(players[p]))

\* a variant of GetActivePlayer that returns the last waiting player of the list
GetLastActivePlayer ==
    LET waiting == {p \in 1..Len(players) : players[p].active /\ ~IsStanding(players[p])}
    IN  IF waiting = {} THEN Nobody
        ELSE CHOOSE p \in waiting : \A q \in waiting : p >= q

\* GetActivePlayer, Nobody standing for nil
GetActivePlayer ==
    LET waiting == {p \in 1..Len(players) : players[p].active /\ ~IsStanding(players[p])}
    IN  IF waiting = {} THEN Nobody
        ELSE CHOOSE p \in waiting : \A q \in waiting : p <= q

RECURSIVE DealTargetsDealerFirst(_)
\* a variant of DealTargets that serves the dealer before the players
DealTargetsDealerFirst(p) ==
    IF p > Len(players) THEN <<>>
    ELSE (IF p = 1 THEN <<Nobody>> ELSE <<>>)
           \o (IF players[p].active THEN <<p>> ELSE <<>>)
           \o DealTargetsDealerFirst(p + 1)

RECURSIVE DealTargets(_)
\* the order DealInitialCards serves one pass: the active players from p on, then the dealer (Nobody)
DealTargets(p) ==
    IF p > Len(players) THEN <<Nobody>>
    ELSE (IF players[p].active THEN <<p>> ELSE <<>>) \o DealTargets(p + 1)

RECURSIVE DealRuns(_, _, _, _)
\* every outcome of dealing to the targets in turn from the pool:
\* the draw that finds the pool empty ends the deal with an error
DealRuns(pls, dl, pool, targets) ==
    IF targets = <<>>
    THEN {[players |-> pls, dealer |-> dl, cards |-> pool, err |-> FALSE]}
    ELSE IF Fronts(pool) = {}
    THEN {[players |-> pls, dealer |-> dl, cards |-> pool, err |-> TRUE]}
    ELSE UNION { LET t == Head(targets)
                 IN  IF t = Nobody
                     THEN DealRuns(pls, DealCard(dl, r), Drawn(pool, r), Tail(targets))
                     ELSE DealRuns([pls EXCEPT ![t].hands[Cur(pls[t])] = DealCard(@, r)],
                                   dl, Drawn(pool, r), Tail(targets))
               : r \in Fronts(pool) }

RECURSIVE DealerRunsSwallowing(_, _)
\* a variant of DealerRuns that stands the dealer when the shoe is empty
DealerRunsSwallowing(h, pool) ==
    IF ~ShouldHit(h) \/ Fronts(pool) = {}
    THEN {[hand |-> DealerStand(h), cards |-> pool, err |-> FALSE]}
    ELSE UNION { DealerRunsSwallowing(DealerHit(h, r), Drawn(pool, r)) : r \in Fronts(pool) }

RECURSIVE DealerRuns(_, _)
\* every outcome of DealerPlay's loop on hand h
DealerRuns(h, pool) ==
    IF ~ShouldHit(h) THEN {[hand |-> DealerStand(h), cards |-> pool, err |-> FALSE]}
    ELSE IF Fronts(pool) = {} THEN {[hand |-> h, cards |-> pool, err |-> TRUE]}
    ELSE UNION { DealerRuns(DealerHit(h, r), Drawn(pool, r)) : r \in Fronts(pool) }

RECURSIVE SplitDeal(_, _, _)
\* PlayerSplit's loop: one card to each of the last two hands, from position i on
SplitDeal(pl, pool, i) ==
    IF i > Len(pl.hands) THEN {[player |-> pl, cards |-> pool, err |-> FALSE]}
    ELSE IF Fronts(pool) = {} THEN {[player |-> pl, cards |-> pool, err |-> TRUE]}
    ELSE UNION { SplitDeal([pl EXCEPT !.hands[i] = Hit(@, r)], Drawn(pool, r), i + 1)
               : r \in Fronts(pool) }

---------------------------------------------------------------------------
(* The calls.  Each action is one call of the API, run to completion.  The *)
(* caller is the command-line program's playRound/playerTurns: a round is  *)
(* StartNewRound, the bets, DealInitialCards, the players' calls,          *)
(* DealerPlay, PayoutResults.  In each round the caller may leave that     *)
(* order once (a call in the wrong phase, a second bet, a second payout);  *)
(* calls the code rejects are made in rounds that kept the order so far.   *)

Init ==
    /\ players = [p \in PlayerIds |-> NewPlayer(StartChips)]
    /\ dealer = NewHand
    /\ shoe = NewShoe(NumDecks)
    /\ round = 0
    /\ last = [op |-> "New", p |-> Nobody, res |-> "ok"]
    /\ phase = [step |-> "init", payouts |-> 0]
    /\ orderly = FALSE
    /\ chips0 = [p \in PlayerIds |-> StartChips]

\* a call that left the order of the round is made once per round
Budget(deviation) ==
    /\ deviation => orderly
    /\ orderly' = (orderly /\ ~deviation)

\* a call that returns an error before it changed anything
Rejected(op, name) ==
    /\ orderly
    /\ last' = [op |-> op, p |-> name, res |-> "error"]
    /\ UNCHANGED <<players, dealer, shoe, round, phase, orderly, chips0>>

Returned(op, name, err) ==
    last' = [op |-> op, p |-> name, res |-> IF err THEN "error" ELSE "ok"]

InTurns == phase.step \in {"play", "dealer"}

\* the hand the caller may act on in its turn: playerTurns' inner loop condition
InPlay(pl) == phase.step = "play" /\ pl.active /\ ~IsStanding(pl)

\* currentHand.DoubleDown() has run and PlayerDoubleDownHit has not yet
AwaitsDoubleCard(pl) ==
    LET h == CurrentHand(pl)
    IN  /\ phase.step = "play" /\ pl.active /\ Len(h.cards) = 2
        /\ h.actions # <<>> /\ h.actions[Len(h.actions)] = "double"

StartNewRound ==
    /\ round <= MaxRounds
    /\ phase.step \in {"init", "paid"}
    /\ round' = round + 1
    /\ dealer' = Clear(dealer)
    /\ players' = [p \in PlayerIds |-> SetActive(ClearHand(players[p]), TRUE)]
    /\ shoe' = IF NeedsReshuffle(shoe) THEN Reshuffle(shoe) ELSE shoe
    /\ Returned("StartNewRound", Nobody, FALSE)
    /\ phase' = [step |-> IF round < MaxRounds THEN "bet" ELSE "closed", payouts |-> 0]
    /\ orderly' = TRUE
    /\ chips0' = [p \in PlayerIds |-> players[p].chips]

\* Game.DealCard: draws nothing; it refuses an empty shoe and reshuffles one
\* that has reached the cut card.  The command-line program never calls it:
\* it is a call of SpecCards, not of Spec.
GameDealCard ==
    /\ phase.step \in {"bet", "play", "dealer", "paid"}
    /\ IF IsEmpty(shoe) THEN Rejected("DealCard", Nobody)
       ELSE /\ shoe' = IF NeedsReshuffle(shoe) THEN Reshuffle(shoe) ELSE shoe
            /\ Returned("DealCard", Nobody, FALSE)
            /\ Budget(TRUE)
            /\ UNCHANGED <<players, dealer, round, phase, chips0>>

\* player.CurrentHand().PlaceBet(amount)
CallPlaceBet(p, amount) ==
    /\ phase.step = "bet"
    /\ IF PlaceBetFails(players[p], amount)
       THEN Rejected("PlaceBet", p)
       ELSE /\ players' = [players EXCEPT ![p] = PlaceBet(@, Cur(@), amount)]
            /\ Returned("PlaceBet", p, ~DeductOk(players[p].chips, amount))
            /\ Budget(CurrentHand(players[p]).bet # 0)
            /\ UNCHANGED <<dealer, shoe, round, phase, chips0>>

DealInitialCards ==
    /\ phase.step = "bet"
    /\ \E out \in DealRuns(players, dealer, shoe.cards, DealTargets(1) \o DealTargets(1)) :
         /\ players' = out.players
         /\ dealer' = out.dealer
         /\ shoe' = [shoe EXCEPT !.cards = out.cards]
         /\ Returned("DealInitialCards", Nobody, out.err)
         /\ Budget(out.err \/ \E p \in PlayerIds : CurrentHand(players[p]).bet = 0)
    /\ phase' = [phase EXCEPT !.step = "play"]
    /\ UNCHANGED <<round, chips0>>

PlayerHit(name) ==
    /\ InTurns
    /\ Found(name) => Len(CurrentHand(players[name]).cards) < MaxHandCards
    /\ IF ~Found(name) THEN Rejected("PlayerHit", name)
       ELSE IF ~players[name].active THEN Rejected("PlayerHit", name)
       ELSE IF IsStanding(players[name]) THEN Rejected("PlayerHit", name)
       ELSE IF IsEmpty(shoe) THEN Rejected("PlayerHit", name)
       ELSE /\ \E r \in Fronts(shoe.cards) :
                 /\ players' = [players EXCEPT
                                   ![name].hands[Cur(players[name])] = Hit(@, r)]
                 /\ shoe' = [shoe EXCEPT !.cards = Drawn(@, r)]
            /\ Returned("PlayerHit", name, FALSE)
            /\ Budget(phase.step # "play")
            /\ UNCHANGED <<dealer, round, phase, chips0>>

PlayerDoubleDownHit(name) ==
    /\ InTurns
    /\ Found(name) => Len(CurrentHand(players[name]).cards) < MaxHandCards
    /\ IF ~Found(name) THEN Rejected("PlayerDoubleDownHit", name)
       ELSE IF ~players[name].active THEN Rejected("PlayerDoubleDownHit", name)
       ELSE IF IsEmpty(shoe) THEN Rejected("PlayerDoubleDownHit", name)
       ELSE /\ \E r \in Fronts(shoe.cards) :
                 /\ players' = [players EXCEPT
                                   ![name].hands[Cur(players[name])] = DoubleDownHit(@, r)]
                 /\ shoe' = [shoe EXCEPT !.cards = Drawn(@, r)]
            /\ Returned("PlayerDoubleDownHit", name, FALSE)
            /\ Budget(~AwaitsDoubleCard(players[name]))
            /\ UNCHANGED <<dealer, round, phase, chips0>>

\* currentHand.DoubleDown(), as playerTurns calls it
CallDoubleDown(p) ==
    /\ InTurns
    /\ IF ~CanDoubleDown(players[p], Cur(players[p]))
       THEN Rejected("DoubleDown", p)
       ELSE /\ players' = [players EXCEPT ![p] = DoubleDown(@, Cur(@))]
            /\ Returned("DoubleDown", p, FALSE)
            /\ Budget(~InPlay(players[p]))
            /\ UNCHANGED <<dealer, shoe, round, phase, chips0>>

\* currentHand.Split(), as playerTurns calls it
CallSplit(p) ==
    /\ InTurns
    /\ IF ~CanSplit(players[p], Cur(players[p]))
       THEN Rejected("Split", p)
       ELSE /\ players' = [players EXCEPT ![p] = Split(@, Cur(@))]
            /\ Returned("Split", p, FALSE)
            /\ Budget(~InPlay(players[p]))
            /\ UNCHANGED <<dealer, shoe, round, phase, chips0>>

PlayerSplit(name) ==
    /\ InTurns
    /\ IF ~Found(name) THEN Rejected("PlayerSplit", name)
       ELSE IF ~players[name].active THEN Rejected("PlayerSplit", name)
       ELSE IF ~PlayerCanSplit(players[name], Cur(players[name]))
            THEN Rejected("PlayerSplit", name)
       ELSE LET split == Split(players[name], Cur(players[name]))
            IN  \E out \in SplitDeal(split, shoe.cards, Len(split.hands) - 1) :
                  /\ players' = [players EXCEPT ![name] = out.player]
                  /\ shoe' = [shoe EXCEPT !.cards = out.cards]
                  /\ Returned("PlayerSplit", name, out.err)
                  /\ Budget(out.err \/ ~InPlay(players[name]))
                  /\ UNCHANGED <<dealer, round, phase, chips0>>

PlayerStand(name) ==
    /\ InTurns
    /\ IF ~Found(name) THEN Rejected("PlayerStand", name)
       ELSE IF ~players[name].active THEN Rejected("PlayerStand", name)
       ELSE /\ players' = [players EXCEPT ![name] =
                             AdvanceOrFinish([@ EXCEPT !.hands[Cur(@)] = Stand(@)])]
            /\ Returned("PlayerStand", name, FALSE)
            /\ Budget(phase.step # "play")
            /\ UNCHANGED <<dealer, shoe, round, phase, chips0>>

\* player.CurrentHand() is read before the nil check: a name nobody carries panics
PlayerSurrender(name) ==
    /\ InTurns
    /\ IF ~Found(name)
       THEN /\ orderly
            /\ last' = [op |-> "PlayerSurrender", p |-> name, res |-> "panic"]
            /\ UNCHANGED <<players, dealer, shoe, round, phase, orderly, chips0>>
       ELSE IF ~players[name].active THEN Rejected("PlayerSurrender", name)
       ELSE IF ~CanSurrender(players[name], Cur(players[name]))
            THEN Rejected("PlayerSurrender", name)
       ELSE /\ players' = [players EXCEPT ![name] = AdvanceOrFinish(Surrender(@, Cur(@)))]
            /\ Returned("PlayerSurrender", name, FALSE)
            /\ Budget(phase.step # "play")
            /\ UNCHANGED <<dealer, shoe, round, phase, chips0>>

DealerPlay ==
    /\ phase.step = "play"
    /\ \E out \in DealerRuns(dealer, shoe.cards) :
         /\ dealer' = out.hand
         /\ shoe' = [shoe EXCEPT !.cards = out.cards]
         /\ Returned("DealerPlay", Nobody, out.err)
         /\ Budget(out.err \/ ~IsRoundComplete)
    /\ phase' = [phase EXCEPT !.step = "dealer"]
    /\ UNCHANGED <<players, round, chips0>>

PayoutResults ==
    /\ phase.step \in {"play", "dealer", "paid"}
    /\ phase.payouts < MaxPayouts
    /\ players' = [p \in PlayerIds |-> SettleFrom(players[p], 1, dealer)]
    /\ Returned("PayoutResults", Nobody, FALSE)
    /\ phase' = [step |-> "paid", payouts |-> phase.payouts + 1]
    /\ Budget(phase.step # "dealer")
    /\ UNCHANGED <<dealer, shoe, round, chips0>>

\* the amounts a caller asks to bet: the CLI passes on any integer it reads,
\* a negative one and one above every chip count included
Amounts == (-1..MaxBet) \cup {StartChips + 1}

Next ==
    \/ StartNewRound
    \/ \E p \in PlayerIds, amount \in Amounts : CallPlaceBet(p, amount)
    \/ DealInitialCards
    \/ \E name \in Names : PlayerHit(name)
    \/ \E name \in Names : PlayerDoubleDownHit(name)
    \/ \E p \in PlayerIds : CallDoubleDown(p)
    \/ \E p \in PlayerIds : CallSplit(p)
    \/ \E name \in Names : PlayerSplit(name)
    \/ \E name \in Names : PlayerStand(name)
    \/ \E name \in Names : PlayerSurrender(name)
    \/ DealerPlay
    \/ PayoutResults

Spec == Init /\ [][Next]_vars

---------------------------------------------------------------------------
(* Hand.Value on free-standing hands: a hand is built card by card with    *)
(* Hand.AddCard from every rank of the library, and Value() is read after  *)
(* each card, as TestHandValue does.                                       *)

InitHand ==
    /\ players = [p \in PlayerIds |-> NewPlayer(StartChips)]
    /\ dealer = NewHand
    /\ shoe = NewShoe(NumDecks)
    /\ round = 0
    /\ last = [op |-> "Value", p |-> Nobody, res |-> Value(<<>>)]
    /\ phase = [step |-> "hand", payouts |-> 0]
    /\ orderly = FALSE
    /\ chips0 = [p \in PlayerIds |-> StartChips]

HandAddCard(rank) ==
    /\ Len(dealer.cards) < MaxFreeHand
    /\ dealer' = AddCard(dealer, rank)
    /\ last' = [op |-> "Value", p |-> Nobody, res |-> Value(dealer'.cards)]
    /\ UNCHANGED <<players, shoe, round, phase, orderly, chips0>>

NextHand == \E rank \in AllRanks : HandAddCard(rank)

SpecHand == InitHand /\ [][NextHand]_vars

---------------------------------------------------------------------------
(* Game.EvaluateHand on free-standing hands: the player's hand is a new    *)
(* hand or the hand a split creates, both hands grow by Hit, and           *)
(* EvaluateHand is read after each card, as TestGameEvaluation does.       *)

EvalRanks == {Ace, 6, 10, King}

\* the one player of TestGameEvaluation: the first at the table
TestPlayer == CHOOSE p \in PlayerIds : \A q \in PlayerIds : p <= q

InitEval ==
    /\ \E h \in {NewHand} \cup {newSplitHand(r) : r \in EvalRanks} :
         players = [p \in PlayerIds |->
                      IF p = TestPlayer THEN [NewPlayer(StartChips) EXCEPT !.hands = <<h>>]
                      ELSE NewPlayer(StartChips)]
    /\ dealer = NewHand
    /\ shoe = NewShoe(NumDecks)
    /\ round = 0
    /\ last = [op |-> "New", p |-> Nobody, res |-> "ok"]
    /\ phase = [step |-> "eval", payouts |-> 0]
    /\ orderly = FALSE
    /\ chips0 = [p \in PlayerIds |-> StartChips]

EvalPlayerHit(p, rank) ==
    /\ Len(CurrentHand(players[p]).cards) < MaxEvalHand
    /\ players' = [players EXCEPT ![p].hands[Cur(players[p])] = Hit(@, rank)]
    /\ last' = [op |-> "EvaluateHand", p |-> p,
                res |-> EvaluateHand(CurrentHand(players'[p]), dealer)]
    /\ UNCHANGED <<dealer, shoe, round, phase, orderly, chips0>>

EvalDealerHit(p, rank) ==
    /\ Len(dealer.cards) < MaxEvalHand
    /\ dealer' = DealerHit(dealer, rank)
    /\ last' = [op |-> "EvaluateHand", p |-> p,
                res |-> EvaluateHand(CurrentHand(players[p]), dealer')]
    /\ UNCHANGED <<players, shoe, round, phase, orderly, chips0>>

\* a variant of EvalAsk that stands the hand it evaluates
EvalAskStanding(p) ==
    /\ players' = [players EXCEPT ![p].hands[Cur(players[p])] = Stand(@)]
    /\ last' = [op |-> IF last.op = "New" THEN "EvaluateHand" ELSE "EvaluateHandAgain",
                p |-> p, res |-> EvaluateHand(CurrentHand(players[p]), dealer)]
    /\ UNCHANGED <<dealer, shoe, round, phase, orderly, chips0>>

\* game.EvaluateHand(hand) called on the hands as they are, a first time or again
EvalAsk(p) ==
    /\ last' = [op |-> IF last.op = "New" THEN "EvaluateHand" ELSE "EvaluateHandAgain",
                p |-> p, res |-> EvaluateHand(CurrentHand(players[p]), dealer)]
    /\ UNCHANGED <<players, dealer, shoe, round, phase, orderly, chips0>>

NextEval ==
    \/ \E rank \in EvalRanks : EvalPlayerHit(TestPlayer, rank)
    \/ \E rank \in EvalRanks : EvalDealerHit(TestPlayer, rank)
    \/ EvalAsk(TestPlayer)

SpecEval == InitEval /\ [][NextEval]_vars

---------------------------------------------------------------------------
(* Dealer.ShouldHit on free-standing hands: the dealer's hand grows by     *)
(* Dealer.Hit from every rank of the library, and ShouldHit() is asked     *)
(* between the cards, any number of times, as TestDealerRules does.        *)

InitRules ==
    /\ players = [p \in PlayerIds |-> NewPlayer(StartChips)]
    /\ dealer = NewHand
    /\ shoe = NewShoe(NumDecks)
    /\ round = 0
    /\ last = [op |-> "NewDealer", p |-> Nobody, res |-> "ok"]
    /\ phase = [step |-> "rules", payouts |-> 0]
    /\ orderly = FALSE
    /\ chips0 = [p \in PlayerIds |-> StartChips]

DealerHits(rank) ==
    /\ Len(dealer.cards) < MaxFreeHand
    /\ dealer' = DealerHit(dealer, rank)
    /\ last' = [op |-> "Hit", p |-> Nobody, res |-> "ok"]
    /\ UNCHANGED <<players, shoe, round, phase, orderly, chips0>>

\* dealer.ShouldHit(): reads the hand, assigns nothing
DealerAsks ==
    /\ last' = [op |-> "ShouldHit", p |-> Nobody, res |-> ShouldHit(dealer)]
    /\ UNCHANGED <<players, dealer, shoe, round, phase, orderly, chips0>>

NextRules ==
    \/ \E rank \in AllRanks : DealerHits(rank)
    \/ DealerAsks

SpecRules == InitRules /\ [][NextRules]_vars

---------------------------------------------------------------------------
(* Game.DealInitialCards with the order of the shoe kept: the shoe is the  *)
(* sequence of its cards in the order Draw returns them.  Players join by  *)
(* AddPlayer, some sit the round out (SetActive(false), as placeBets does  *)
(* for a player without chips), and the cards are dealt.                   *)

MaxSeats == 3

DealDeck == 6

\* the orders a shuffle may leave a deck of DealDeck different cards in
Shuffles == {deck \in [1..DealDeck -> 1..DealDeck] :
                \A i, j \in 1..DealDeck : deck[i] = deck[j] => i = j}

RECURSIVE DealInOrder(_, _, _, _)
\* DealInitialCards' draws for the targets in turn; a draw from an empty shoe
\* ends the deal with an error
DealInOrder(pls, dl, cards, targets) ==
    IF targets = <<>>
    THEN [players |-> pls, dealer |-> dl, cards |-> cards, err |-> FALSE]
    ELSE IF cards = <<>>
    THEN [players |-> pls, dealer |-> dl, cards |-> cards, err |-> TRUE]
    ELSE LET t    == Head(targets)
             card == Head(cards)
         IN  IF t = Nobody
             THEN DealInOrder(pls, DealCard(dl, card), Tail(cards), Tail(targets))
             ELSE DealInOrder([pls EXCEPT ![t].hands[Cur(pls[t])] = DealCard(@, card)],
                              dl, Tail(cards), Tail(targets))

InitDeal ==
    /\ players = <<>>
    /\ dealer = NewHand
    /\ \E deck \in Shuffles :
         shoe = [NewShoe(NumDecks) EXCEPT !.cards = [i \in 1..DealDeck |-> deck[i]]]
    /\ round = 0
    /\ last = [op |-> "New", p |-> Nobody, res |-> "ok"]
    /\ phase = [step |-> "seat", payouts |-> 0]
    /\ orderly = FALSE
    /\ chips0 = <<>>

AddPlayer ==
    /\ phase.step = "seat"
    /\ Len(players) < MaxSeats
    /\ players' = Append(players, NewPlayer(StartChips))
    /\ chips0' = Append(chips0, StartChips)
    /\ last' = [op |-> "AddPlayer", p |-> Len(players) + 1, res |-> "ok"]
    /\ UNCHANGED <<dealer, shoe, round, phase, orderly>>

SitOut(p) ==
    /\ phase.step = "seat"
    /\ players[p].active
    /\ players' = [players EXCEPT ![p] = SetActive(@, FALSE)]
    /\ last' = [op |-> "SetActive", p |-> p, res |-> "ok"]
    /\ UNCHANGED <<dealer, shoe, round, phase, orderly, chips0>>

DealInitialCardsInOrder ==
    /\ phase.step \in {"seat", "dealt"}
    /\ LET out == DealInOrder(players, dealer, shoe.cards,
                              DealTargets(1) \o DealTargets(1))
       IN  /\ players' = out.players
           /\ dealer' = out.dealer
           /\ shoe' = [shoe EXCEPT !.cards = out.cards]
           /\ Returned("DealInitialCards", Nobody, out.err)
           /\ phase' = [phase EXCEPT !.step = IF out.err THEN "failed" ELSE "dealt"]
    /\ UNCHANGED <<round, orderly, chips0>>

NextDeal ==
    \/ AddPlayer
    \/ \E p \in 1..Len(players) : SitOut(p)
    \/ DealInitialCardsInOrder

SpecDeal == InitDeal /\ [][NextDeal]_vars

---------------------------------------------------------------------------
(* Shoe on its own: a shoe is made with NewShoe for a requested number of  *)
(* decks, valid or not, and then drawn from and reshuffled in any order.   *)

MaxDecks == 2

\* the numbers of decks a caller asks for
DeckRequests == -1..MaxDecks

InitShoe ==
    /\ players = [p \in PlayerIds |-> NewPlayer(StartChips)]
    /\ dealer = NewHand
    /\ \E n \in DeckRequests :
         /\ shoe = NewShoe(n)
         /\ last = [op |-> "NewShoe", p |-> Nobody, res |-> n]
    /\ round = 0
    /\ phase = [step |-> "shoe", payouts |-> 0]
    /\ orderly = FALSE
    /\ chips0 = [p \in PlayerIds |-> StartChips]

\* cards.Card{}, the card Draw returns with its error
NoCard == 0

\* Shoe.Draw: an error from an empty shoe, the front card otherwise
ShoeDraw ==
    /\ IF IsEmpty(shoe)
       THEN /\ last' = [op |-> "Draw", p |-> Nobody, res |-> [card |-> NoCard, err |-> TRUE]]
            /\ shoe' = shoe
       ELSE \E r \in Fronts(shoe.cards) :
              /\ shoe' = [shoe EXCEPT !.cards = Drawn(@, r)]
              /\ last' = [op |-> "Draw", p |-> Nobody, res |-> [card |-> r, err |-> FALSE]]
    /\ UNCHANGED <<players, dealer, round, phase, orderly, chips0>>

ShoeReshuffle ==
    /\ shoe' = Reshuffle(shoe)
    /\ last' = [op |-> "Reshuffle", p |-> Nobody, res |-> "ok"]
    /\ UNCHANGED <<players, dealer, round, phase, orderly, chips0>>

NextShoe == ShoeDraw \/ ShoeReshuffle

SpecShoe == InitShoe /\ [][NextShoe]_vars

---------------------------------------------------------------------------
(* Shoe.Draw with the order of the shoe kept: a shuffled shoe is drawn     *)
(* from until it is empty, and once more.                                  *)

\* a variant of TakeFront that takes the card at the back
TakeBack(cards) ==
    [card |-> cards[Len(cards)], rest |-> SubSeq(cards, 1, Len(cards) - 1)]

\* the draw of the card collection: the first card leaves, the others stay
TakeFront(cards) == [card |-> Head(cards), rest |-> Tail(cards)]

InitDraw ==
    /\ players = [p \in PlayerIds |-> NewPlayer(StartChips)]
    /\ dealer = NewHand
    /\ \E deck \in Shuffles :
         shoe = [cards |-> [i \in 1..DealDeck |-> deck[i]], numDecks |-> 1,
                 cutCard |-> TruncMul(DealDeck, CutNum, CutDen)]
    /\ round = 0
    /\ last = [op |-> "NewShoe", p |-> Nobody, res |-> 1]
    /\ phase = [step |-> "draw", payouts |-> 0]
    /\ orderly = FALSE
    /\ chips0 = [p \in PlayerIds |-> StartChips]

\* Shoe.Draw on the ordered shoe
DrawInOrder ==
    /\ IF Len(shoe.cards) = 0
       THEN /\ last' = [op |-> "Draw", p |-> Nobody, res |-> [card |-> NoCard, err |-> TRUE]]
            /\ shoe' = shoe
       ELSE LET drawn == TakeFront(shoe.cards)
            IN  /\ last' = [op |-> "Draw", p |-> Nobody,
                            res |-> [card |-> drawn.card, err |-> FALSE]]
                /\ shoe' = [shoe EXCEPT !.cards = drawn.rest]
    /\ UNCHANGED <<players, dealer, round, phase, orderly, chips0>>

NextDraw == DrawInOrder

SpecDraw == InitDraw /\ [][NextDraw]_vars

---------------------------------------------------------------------------
(* Whose turn it is: a table of up to MaxSeats players, each dealt two     *)
(* cards and active or not, of whom any may be hit or stand; between the   *)
(* calls IsRoundComplete() and GetActivePlayer() are asked.                *)

\* the first and the second card a player may hold when the turns begin
FirstCards == {Ace, 10}

SecondCards == {6, 10}

\* the card a hit brings
HitCards == {10}

\* a player after the deal
Seated(first, second, active) ==
    LET pl == NewPlayer(StartChips)
    IN  [pl EXCEPT !.hands[1] = DealCard(DealCard(@, first), second),
                   !.active = active]

SeatStates ==
    {Seated(first, second, active) :
        first \in FirstCards, second \in SecondCards, active \in BOOLEAN}

InitTurns ==
    /\ \E n \in 0..MaxSeats : players \in [1..n -> SeatStates]
    /\ dealer = NewHand
    /\ shoe = NewShoe(NumDecks)
    /\ round = 1
    /\ last = [op |-> "DealInitialCards", p |-> Nobody, res |-> "ok"]
    /\ phase = [step |-> "turns", payouts |-> 0]
    /\ orderly = FALSE
    /\ chips0 = [p \in 1..Len(players) |-> StartChips]

\* Game.PlayerHit when it finds nothing to reject
TurnHit(name, card) ==
    /\ players[name].active /\ ~IsStanding(players[name])
    /\ Len(CurrentHand(players[name]).cards) < MaxHandCards
    /\ players' = [players EXCEPT ![name].hands[Cur(players[name])] = Hit(@, card)]
    /\ last' = [op |-> "PlayerHit", p |-> name, res |-> "ok"]
    /\ UNCHANGED <<dealer, shoe, round, phase, orderly, chips0>>

\* Game.PlayerStand when it finds nothing to reject
TurnStand(name) ==
    /\ players[name].active
    /\ players' = [players EXCEPT ![name] =
                      AdvanceOrFinish([@ EXCEPT !.hands[Cur(@)] = Stand(@)])]
    /\ last' = [op |-> "PlayerStand", p |-> name, res |-> "ok"]
    /\ UNCHANGED <<dealer, shoe, round, phase, orderly, chips0>>

\* game.IsRoundComplete() and game.GetActivePlayer(): both only read
AskRound ==
    /\ last' = [op |-> "IsRoundComplete", p |-> GetActivePlayer, res |-> IsRoundComplete]
    /\ UNCHANGED <<players, dealer, shoe, round, phase, orderly, chips0>>

NextTurns ==
    \/ \E name \in 1..Len(players), card \in HitCards : TurnHit(name, card)
    \/ \E name \in 1..Len(players) : TurnStand(name)
    \/ AskRound

SpecTurns == InitTurns /\ [][NextTurns]_vars

---------------------------------------------------------------------------
(* Properties *)

RECURSIVE CardTotal(_, _)
\* the total of the cards with every Ace counted as aceAs
CardTotal(cards, aceAs) ==
    IF cards = <<>> THEN 0
    ELSE (IF Head(cards) = Ace THEN aceAs
          ELSE IF Head(cards) \in {Jack, Queen, King} THEN 10
          ELSE Head(cards)) + CardTotal(Tail(cards), aceAs)

\* every total of the cards: each Ace counted as 1 or as 11
Totals(cards) ==
    {CardTotal(cards, 1) + 10 * k : k \in 0..Cardinality({i \in DOMAIN cards : cards[i] = Ace})}

\* the largest total that is at most 21, or the all-Aces-as-1 total when none is
BestTotal(cards) ==
    LET fit == {t \in Totals(cards) : t <= 21}
    IN  IF fit # {} THEN CHOOSE t \in fit : \A u \in fit : u <= t
        ELSE CardTotal(cards, 1)

\* the hand with the cards at positions i and j exchanged; every
\* rearrangement of a hand is a succession of such exchanges
Exchanged(cards, i, j) == [cards EXCEPT ![i] = cards[j], ![j] = cards[i]]

\* C2: the value Hand.Value() returned for a hand lies between the total
\* with every Ace as 1 and the total with every Ace as 11, is the largest
\* total that is <= 21 when there is one and the all-Aces-as-1 total
\* otherwise, and stays the same when any two cards of the hand change places
\* (hence under every rearrangement of the hand's cards).
C2_ValueIsBestTotal ==
    last.op = "Value" =>
        /\ CardTotal(dealer.cards, 1) <= last.res
        /\ last.res <= CardTotal(dealer.cards, 11)
        /\ last.res = BestTotal(dealer.cards)
        /\ \A i, j \in 1..Len(dealer.cards) :
             Value(Exchanged(dealer.cards, i, j)) = last.res

\* a hand with two Aces, both lowered: 11 + 11 + 10 read as 12
C2_TwoAcesLowered ==
    /\ last.op = "Value"
    /\ dealer.cards = <<Ace, King, Ace>>
    /\ last.res = 12

\* the outcome the precedence of C4 gives
Precedence(playerHand, dealerHand) ==
    IF IsBlackjack(playerHand) /\ IsBlackjack(dealerHand) THEN "Push"
    ELSE IF IsBlackjack(playerHand) THEN "PlayerBlackjack"
    ELSE IF IsBlackjack(dealerHand) THEN "DealerBlackjack"
    ELSE IF Value(playerHand.cards) > 21 THEN "DealerWin"
    ELSE IF Value(dealerHand.cards) > 21 THEN "PlayerWin"
    ELSE IF Value(playerHand.cards) > Value(dealerHand.cards) THEN "PlayerWin"
    ELSE IF Value(playerHand.cards) < Value(dealerHand.cards) THEN "DealerWin"
    ELSE "Push"

\* C4: EvaluateHand returns Push when both hands are blackjack,
\* PlayerBlackjack when only the player's is, DealerBlackjack when only the
\* dealer's is, otherwise DealerWin when the player is busted, otherwise
\* PlayerWin when the dealer is busted, otherwise the higher value wins and
\* equal values push.
C4_EvaluatePrecedence ==
    last.op = "EvaluateHand" =>
        last.res = Precedence(CurrentHand(players[last.p]), dealer)

\* both hands busted, and the player's bust decided the outcome
C4_BothBusted ==
    /\ last.op = "EvaluateHand"
    /\ Value(CurrentHand(players[last.p]).cards) > 21
    /\ Value(dealer.cards) > 21
    /\ last.res = "DealerWin"

\* twice the chips PayoutResults adds for hand h and twice the winnings it
\* records, with a blackjack paid bet + 1.5 x bet (doubled to stay in the integers)
TwiceGain(h, dealerHand) ==
    LET result == EvaluateHand(h, dealerHand)
    IN  IF h.bet = 0 THEN 0
        ELSE IF result = "PlayerWin" THEN 4 * h.bet
        ELSE IF result = "PlayerBlackjack" THEN 5 * h.bet
        ELSE IF result = "Push" THEN 2 * h.bet
        ELSE 0

TwiceWinnings(h, dealerHand) ==
    LET result == EvaluateHand(h, dealerHand)
    IN  IF result = "PlayerWin" THEN 2 * h.bet
        ELSE IF result = "PlayerBlackjack" THEN 3 * h.bet
        ELSE IF result = "Push" THEN 0
        ELSE -(2 * h.bet)

\* the same in whole chips: 1.5 x bet loses its half chip
ChipGain(h, dealerHand) ==
    IF h.bet # 0 /\ EvaluateHand(h, dealerHand) = "PlayerBlackjack"
    THEN h.bet + (3 * h.bet) \div 2
    ELSE TwiceGain(h, dealerHand) \div 2

ChipWinnings(h, dealerHand) ==
    IF EvaluateHand(h, dealerHand) = "PlayerBlackjack"
    THEN (3 * h.bet) \div 2
    ELSE -((-TwiceWinnings(h, dealerHand)) \div 2)

RECURSIVE SumOver(_, _, _)
\* the sum of F(h, dealerHand) over the hands
SumOver(F(_, _), hands, dealerHand) ==
    IF hands = <<>> THEN 0
    ELSE F(Head(hands), dealerHand) + SumOver(F, Tail(hands), dealerHand)

\* a call of PayoutResults is the step that leaves its name in last
PayoutStep == last'.op = "PayoutResults"

C6_SecondPayoutPaysNothing ==
    [][(PayoutStep /\ phase.step = "paid") =>
        \A p \in PlayerIds : players'[p].chips = players[p].chips]_vars

\* C7: after PayoutResults every hand it settled (win, blackjack, push or
\* loss) has a bet of 0.
C7_SettledBetIsZero ==
    last.op = "PayoutResults" =>
        \A p \in PlayerIds : \A i \in 1..Len(players[p].hands) :
            players[p].hands[i].bet = 0

\* the hand's log grew, and a surrender action is among what was appended
SurrenderAppended(before, after) ==
    /\ Len(after.actions) > Len(before.actions)
    /\ SubSeq(after.actions, 1, Len(before.actions)) = before.actions
    /\ \E k \in (Len(before.actions) + 1)..Len(after.actions) :
         after.actions[k] = "surrender"

\* a successful PlayerSurrender is the step that leaves its name in last
SurrenderStep == last'.op = "PlayerSurrender" /\ last'.res = "ok"

\* C8: Surrender on a hand with bet b returns half of b (in whole chips) to
\* the player's chips, records winnings of minus that half, sets the hand's
\* bet to 0, appends a surrender action to the hand's log and leaves the
\* hand stood.
C8_SurrenderZeroesBet ==
    [][SurrenderStep =>
        LET p      == last'.p
            i      == Cur(players[p])
            before == players[p].hands[i]
            after  == players'[p].hands[i]
            half   == before.bet \div 2
        IN  /\ players'[p].chips = players[p].chips + half
            /\ after.winnings = -half
            /\ after.bet = 0
            /\ SurrenderAppended(before, after)
            /\ after.isStood]_vars

\* a hand the player surrendered
Surrendered(h) == \E k \in 1..Len(h.actions) : h.actions[k] = "surrender"

\* what a hand adds to the balance over the round, as C1 states it: a
\* surrendered hand costs the half of its stake that was not returned, a
\* lost hand its stake, a pushed hand nothing, a won hand earns 1 x the
\* stake and a natural blackjack 1.5 x (in whole chips)
NetOfHand(h, dealerHand) ==
    IF Surrendered(h) THEN -(h.bet - h.bet \div 2)
    ELSE ChipWinnings(h, dealerHand)

\* C1: over one round played in order (bets, deal, the player's calls,
\* DealerPlay, one PayoutResults) the final chip balance is the balance at
\* the start of the round plus the winnings of the won hands minus the
\* stakes of the lost hands, pushes returned in full and a surrendered hand
\* costing half its stake; no hand is paid twice.
C1_ChipsConserved ==
    [][(PayoutStep /\ orderly') =>
        \A p \in PlayerIds :
            players'[p].chips =
                chips0[p] + SumOver(NetOfHand, players[p].hands, dealer)]_vars

\* a hand a split produced: the split is in its log
FromSplit(h) == \E k \in 1..Len(h.actions) : h.actions[k] = "split"

TenValued(rank) == rank \in {10, Jack, Queen, King}

\* every hand on the table
HandsOnTable ==
    {dealer} \cup UNION {{players[p].hands[i] : i \in 1..Len(players[p].hands)}
                          : p \in PlayerIds}

\* C9: IsBlackjack() is true exactly when the hand has exactly two cards,
\* value 21 and is not the product of a split; a hand a split produced that
\* holds an Ace and a ten-valued card has value 21 and is not a blackjack.
C9_BlackjackIffNaturalTwoCards ==
    \A h \in HandsOnTable :
        /\ IsBlackjack(h) <=> (Len(h.cards) = 2 /\ Value(h.cards) = 21 /\ ~FromSplit(h))
        /\ (/\ FromSplit(h) /\ Len(h.cards) = 2
            /\ \E a, b \in 1..2 : h.cards[a] = Ace /\ TenValued(h.cards[b]))
              => (Value(h.cards) = 21 /\ ~IsBlackjack(h))

\* a hand a split produced holds a ten and an Ace
C9_SplitHandHolds21 ==
    \E p \in PlayerIds : \E i \in 1..Len(players[p].hands) :
        LET h == players[p].hands[i]
        IN  FromSplit(h) /\ h.cards = <<10, Ace>> /\ Value(h.cards) = 21

\* a successful Hand.Split is the step that leaves its name in last
SplitStep == last'.op = "Split" /\ last'.res = "ok"

\* C10: Split() on a two-card pair with bet b leaves the original hand with
\* only its first card, appends exactly one new hand holding the former
\* second card after the player's existing hands, marks both IsSplit(),
\* gives the new hand bet b while the original keeps bet b, and takes
\* exactly b chips from the player.
C10_SplitMovesSecondCard ==
    [][SplitStep =>
        LET p      == last'.p
            i      == Cur(players[p])
            n      == Len(players[p].hands)
            before == players[p].hands[i]
            kept   == players'[p].hands[i]
            fresh  == players'[p].hands[n + 1]
        IN  /\ Len(players'[p].hands) = n + 1
            /\ \A j \in 1..n : j # i => players'[p].hands[j] = players[p].hands[j]
            /\ kept.cards = <<before.cards[1]>>
            /\ fresh.cards = <<before.cards[2]>>
            /\ kept.isSplit /\ fresh.isSplit
            /\ kept.bet = before.bet /\ fresh.bet = before.bet
            /\ players'[p].chips = players[p].chips - before.bet]_vars

\* a pair carrying a bet of 2 has been split: two hands of one card, 2 more chips taken
C10_PairWasSplit ==
    /\ last.op = "Split" /\ last.res = "ok"
    /\ Len(players[last.p].hands) = 2
    /\ players[last.p].hands[1].cards = <<6>>
    /\ players[last.p].hands[2].cards = <<6>>
    /\ players[last.p].hands[2].bet = 2
    /\ players[last.p].chips = StartChips - 4

\* a split attempt is a step that leaves Split or PlayerSplit in last
SplitAttempt(p) == last'.op \in {"Split", "PlayerSplit"} /\ last'.p = p

\* C5: each player always holds at least 1 and at most 4 hands, and a split
\* attempted while the player holds 4 hands fails with an error and leaves
\* the player's hands (their number, bets and cards) and chips as they were.
C5_AtMostFourHands ==
    /\ [](\A p \in PlayerIds : Len(players[p].hands) \in 1..4)
    /\ [][\A p \in PlayerIds :
            (SplitAttempt(p) /\ Len(players[p].hands) = 4) =>
                (last'.res = "error" /\ players'[p] = players[p])]_vars

\* a fifth hand was asked for on a pair the player could pay for, and refused
C5_FifthHandRefused ==
    /\ last.op \in {"Split", "PlayerSplit"} /\ last.res = "error"
    /\ Found(last.p)
    /\ LET pl == players[last.p]
       IN  /\ Len(pl.hands) = 4
           /\ Len(CurrentHand(pl).cards) = 2
           /\ CurrentHand(pl).cards[1] = CurrentHand(pl).cards[2]
           /\ CurrentHand(pl).bet > 0
           /\ HasEnoughChips(pl.chips, CurrentHand(pl).bet)

---------------------------------------------------------------------------
(* Hand.DoubleDown *)

\* a call of currentHand.DoubleDown() that returned nil
DoubleDownStep == last'.op = "DoubleDown" /\ last'.res = "ok"

\* C11: a DoubleDown that succeeds takes the hand's bet b from the chips and
\* makes the bet 2b, and leaves the hand's cards and its stood and active
\* flags as they were
C11_DoubleDownKeepsCardsAndFlags ==
    [][DoubleDownStep =>
         LET p      == last'.p
             before == CurrentHand(players[p])
             after  == players'[p].hands[Cur(players[p])]
         IN  /\ players'[p].chips = players[p].chips - before.bet
             /\ after.bet = 2 * before.bet
             /\ after.cards = before.cards
             /\ after.isStood = before.isStood
             /\ after.isActive = before.isActive]_vars

---------------------------------------------------------------------------
(* Insufficient funds *)

\* a call of DoubleDown or Split on the current hand of a player who holds
\* fewer chips than that hand's bet
ShortOfBet(p) == players[p].chips < CurrentHand(players[p]).bet

\* C12: PlaceBet with an amount that is not positive or exceeds the chips,
\* and DoubleDown or Split by a player whose chips are below the hand's bet,
\* return an error and leave chips, bets, hands and cards as they were
C12_InsufficientFundsRejected ==
    [][/\ \A p \in PlayerIds, amount \in Amounts :
            CallPlaceBet(p, amount) /\ (amount <= 0 \/ amount > players[p].chips)
                => last'.res = "error" /\ UNCHANGED <<players, dealer, shoe>>
       /\ \A p \in PlayerIds :
            /\ last'.op \in {"DoubleDown", "Split", "PlayerSplit"}
            /\ last'.p = p
            /\ ShortOfBet(p)
            => last'.res = "error" /\ UNCHANGED <<players, dealer, shoe>>]_vars

\* a pair that could be split, were there chips for the second bet, was refused
C12_SplitRefusedForChips ==
    \E p \in PlayerIds :
        LET h == CurrentHand(players[p])
        IN  /\ last = [op |-> "Split", p |-> p, res |-> "error"]
            /\ Len(h.cards) = 2 /\ h.cards[1] = h.cards[2]
            /\ Len(players[p].hands) < 4
            /\ h.bet > 0 /\ players[p].chips < h.bet

---------------------------------------------------------------------------
(* Calls for a player who is not at the table or not active *)

PlayerCalls ==
    {"PlayerHit", "PlayerStand", "PlayerSplit", "PlayerSurrender", "PlayerDoubleDownHit"}

\* the call just made named nobody at the table, or a player who is not active
UnknownOrInactive(name) == ~Found(name) \/ ~players[name].active

\* C13: PlayerHit, PlayerStand, PlayerSplit, PlayerSurrender and
\* PlayerDoubleDownHit for a name no player carries, or for a player who is
\* not active, return an error and change no player, hand or shoe
C13_UnknownOrInactiveRejected ==
    [][last'.op \in PlayerCalls /\ UnknownOrInactive(last'.p)
          => last'.res = "error" /\ UNCHANGED <<players, dealer, shoe>>]_vars

---------------------------------------------------------------------------
(* Calls for a player whose current hand is standing *)

\* the named player is at the table and active, and the current hand is
\* stood, busted or a blackjack
StandingAtTable(name) ==
    Found(name) /\ players[name].active /\ IsStanding(players[name])

\* C14: PlayerHit, PlayerStand, PlayerSplit, PlayerSurrender and
\* PlayerDoubleDownHit for a player whose current hand is already standing
\* return an error, draw no card and change no hand
C14_StandingRejected ==
    [][last'.op \in PlayerCalls /\ StandingAtTable(last'.p)
          => last'.res = "error" /\ UNCHANGED <<players, shoe>>]_vars

---------------------------------------------------------------------------
(* Hand.CanSurrender *)

\* the player's only hand, of two cards, neither stood nor above 21
MaySurrender(pl) ==
    LET h == CurrentHand(pl)
    IN  /\ Len(pl.hands) = 1
        /\ Len(h.cards) = 2
        /\ ~h.isStood
        /\ RawValue(h.cards) - 10 * AceCount(h.cards) <= 21

\* C15: CanSurrender holds exactly for a player's only hand when it has two
\* cards and is neither stood nor busted; PlayerSurrender on a hand for which
\* it is false returns an error and changes no chips, bet, flag or log, and
\* on a hand of an active player for which it is true it surrenders the hand
C15_SurrenderOnlyWhenAllowed ==
    [][/\ \A p \in PlayerIds :
            CanSurrender(players[p], Cur(players[p])) <=> MaySurrender(players[p])
       /\ \A p \in PlayerIds :
            last'.op = "PlayerSurrender" /\ last'.p = p
            => IF MaySurrender(players[p]) /\ players[p].active
               THEN /\ last'.res = "ok"
                    /\ SurrenderAppended(CurrentHand(players[p]),
                                         players'[p].hands[Cur(players[p])])
               ELSE last'.res = "error" /\ UNCHANGED players]_vars

\* a surrender was refused on a two-card hand that came from a split
C15_RefusedAfterSplit ==
    \E p \in PlayerIds :
        LET h == CurrentHand(players[p])
        IN  /\ last = [op |-> "PlayerSurrender", p |-> p, res |-> "error"]
            /\ players[p].active
            /\ Len(players[p].hands) = 2
            /\ Len(h.cards) = 2 /\ ~h.isStood

---------------------------------------------------------------------------
(* Dealer.ShouldHit *)

\* the total of a hand with every Ace counted as 1
LowTotal(cards) == RawValue(cards) - 10 * AceCount(cards)

\* a soft hand: one Ace can count as 11 without the hand going over 21
CountsAnAceAsEleven(cards) == AceCount(cards) > 0 /\ LowTotal(cards) + 10 <= 21

\* the total of a hand: one Ace as 11 if that fits, every other Ace as 1
HandTotal(cards) ==
    IF CountsAnAceAsEleven(cards) THEN LowTotal(cards) + 10 ELSE LowTotal(cards)

\* C16: whenever the dealer's hand totals 17 with an Ace counted as 11,
\* whatever the number of Aces in it, ShouldHit() answers true
C16_DealerHitsSoft17 ==
    /\ last.op = "ShouldHit"
    /\ HandTotal(dealer.cards) = 17
    /\ CountsAnAceAsEleven(dealer.cards)
    => last.res = TRUE

\* the dealer's rule, by the total of the hand and whether it is soft
DealerRule(cards) ==
    LET value == HandTotal(cards)
        soft  == CountsAnAceAsEleven(cards)
    IN  IF value > 21 THEN FALSE
        ELSE IF value >= 17 /\ ~soft THEN FALSE
        ELSE IF value = 17 /\ soft THEN TRUE
        ELSE IF value >= 18 THEN FALSE
        ELSE value <= 16

\* C17: ShouldHit() is a function of the dealer's hand alone: its answer is
\* the dealer's rule for the hand (false on a bust, false on a hard 17 or
\* more, true on a soft 17, false on 18 or more, true on 16 or less), a
\* call changes no state, and a second call on the same hand answers alike
C17_ShouldHitIsRuleOfHand ==
    [][last'.op = "ShouldHit"
          => /\ last'.res = DealerRule(dealer.cards)
             /\ UNCHANGED <<players, dealer, shoe, round>>
             /\ last.op = "ShouldHit" => last'.res = last.res]_vars

---------------------------------------------------------------------------
(* The chip balance *)

\* C18: with the default chip manager and a starting balance that is not
\* negative, no player's chip balance is negative in any reachable state
C18_ChipsNeverNegative == \A p \in PlayerIds : players[p].chips >= 0

\* a player put the last chip on the table: a double down took the balance to 0
C18_LastChipStaked ==
    \E p \in PlayerIds :
        /\ last = [op |-> "DoubleDown", p |-> p, res |-> "ok"]
        /\ players[p].chips = 0
        /\ CurrentHand(players[p]).bet > 0

---------------------------------------------------------------------------
(* Game.DealInitialCards *)

RECURSIVE ActiveSeats(_)
\* the active players from seat p on, in the order of the player list
ActiveSeats(p) ==
    IF p > Len(players) THEN <<>>
    ELSE IF players[p].active THEN <<p>> \o ActiveSeats(p + 1)
    ELSE ActiveSeats(p + 1)

DealStep == last'.op = "DealInitialCards"

\* C19: DealInitialCards, when the shoe holds 2 x (a + 1) cards or more for
\* a active players, succeeds and takes exactly the first 2 x (a + 1) cards
\* of the shoe: the k-th active player gets the k-th and the (a + 1 + k)-th,
\* the dealer the (a + 1)-th and the last of them, each hand growing by just
\* these two cards, and players who are not active get none
C19_DealtInDrawOrder ==
    [][DealStep =>
         LET seats == ActiveSeats(1)
             a     == Len(seats)
             deck  == shoe.cards
         IN  Len(deck) >= 2 * (a + 1) =>
               /\ last'.res = "ok"
               /\ shoe'.cards = SubSeq(deck, 2 * (a + 1) + 1, Len(deck))
               /\ \A k \in 1..a :
                    LET pl == players[seats[k]]
                    IN  players'[seats[k]].hands[Cur(pl)].cards
                          = CurrentHand(pl).cards \o <<deck[k], deck[a + 1 + k]>>
               /\ dealer'.cards = dealer.cards \o <<deck[a + 1], deck[2 * (a + 1)]>>
               /\ \A p \in 1..Len(players) :
                    ~players[p].active => players'[p] = players[p]]_vars

\* three players with the second sitting out: the first and the third and
\* the dealer hold two cards each, the second none, and the shoe is used up
C19_DealtAroundSittingPlayer ==
    /\ last = [op |-> "DealInitialCards", p |-> Nobody, res |-> "ok"]
    /\ Len(players) = 3
    /\ ~players[2].active /\ CurrentHand(players[2]).cards = <<>>
    /\ Len(CurrentHand(players[1]).cards) = 2
    /\ Len(CurrentHand(players[3]).cards) = 2
    /\ Len(dealer.cards) = 2
    /\ shoe.cards = <<>>

---------------------------------------------------------------------------
(* Game.StartNewRound *)

StartStep == last'.op = "StartNewRound"

\* a shoe as Reshuffle leaves it: every card of its decks, the cut card at
\* three quarters of them
FreshShoe(s) ==
    /\ s.cards = FullShoe(s.numDecks)
    /\ s.cutCard = (3 * s.numDecks * DeckSize) \div 4

\* C20: StartNewRound adds one to the round counter, leaves the dealer with
\* an empty hand that is not stood and every player active with a single
\* empty hand (no cards, bet 0, winnings 0) and the cursor at 0, whatever
\* hands the player had, leaves every player's chips as they were, and
\* reshuffles the shoe exactly when NeedsReshuffle() held before, so that it
\* does not hold afterwards
C20_StartNewRoundResets ==
    [][StartStep =>
         /\ round' = round + 1
         /\ dealer'.cards = <<>> /\ ~dealer'.isStood
         /\ \A p \in PlayerIds :
              /\ players'[p].active
              /\ Len(players'[p].hands) = 1
              /\ players'[p].hands[1].cards = <<>>
              /\ players'[p].hands[1].bet = 0
              /\ players'[p].hands[1].winnings = 0
              /\ players'[p].currentHandIdx = 0
              /\ players'[p].chips = players[p].chips
         /\ IF Remaining(shoe) <= shoe.numDecks * DeckSize - shoe.cutCard
            THEN FreshShoe(shoe')
            ELSE shoe' = shoe
         /\ ~NeedsReshuffle(shoe')]_vars

\* the round after a played one has started with a reshuffled shoe
C20_NextRoundReshuffled ==
    /\ last.op = "StartNewRound"
    /\ round = MaxRounds + 1
    /\ Remaining(shoe) = shoe.numDecks * DeckSize
    /\ \E p \in PlayerIds : players[p].chips # StartChips

---------------------------------------------------------------------------
(* Shoe.NeedsReshuffle and Shoe.Reshuffle *)

\* the cards of a full pool of the shoe
FullPool(s) == s.numDecks * DeckSize

\* the position of the cut card: three quarters of the full pool
CutPosition(s) == (3 * FullPool(s)) \div 4

\* C21: NeedsReshuffle() holds exactly when the cards left in the pool are
\* at most the full pool less the cut position, the cut position being 75%
\* of the full pool; the number of decks is the number asked for, or 1 if
\* that is less than 1; and right after NewShoe or Reshuffle the pool is
\* full and NeedsReshuffle() does not hold
C21_ReshuffleAtCutCard ==
    /\ shoe.numDecks >= 1
    /\ NeedsReshuffle(shoe) <=> Remaining(shoe) <= FullPool(shoe) - CutPosition(shoe)
    /\ last.op = "NewShoe" => shoe.numDecks = (IF last.res < 1 THEN 1 ELSE last.res)
    /\ last.op \in {"NewShoe", "Reshuffle"}
         => Remaining(shoe) = FullPool(shoe) /\ ~NeedsReshuffle(shoe)

\* a draw from a shoe of two decks has just reached the cut card
C21_CutCardReached ==
    /\ last.op = "Draw" /\ ~last.res.err
    /\ shoe.numDecks = 2
    /\ Remaining(shoe) = FullPool(shoe) - CutPosition(shoe)
    /\ NeedsReshuffle(shoe)

---------------------------------------------------------------------------
(* Shoe.Draw *)

DrawStep == last'.op = "Draw"

---------------------------------------------------------------------------
(* Game.IsRoundComplete and Game.GetActivePlayer *)

\* the player's current hand is busted, a blackjack or stood
StandsOnCurrent(pl) ==
    LET h == CurrentHand(pl)
    IN  \/ LowTotal(h.cards) > 21
        \/ (Len(h.cards) = 2 /\ HandTotal(h.cards) = 21 /\ ~h.isSplit)
        \/ h.isStood

\* the players still to act: active and not standing on the current hand
Waiting == {p \in 1..Len(players) : players[p].active /\ ~StandsOnCurrent(players[p])}

\* C23: IsRoundComplete() is true exactly when every active player stands on
\* the current hand (busted, blackjack or stood); GetActivePlayer() returns
\* the first player of the list who is active and not standing, and none
\* exactly when IsRoundComplete() is true
C23_RoundCompleteIffNobodyWaits ==
    /\ IsRoundComplete <=> Waiting = {}
    /\ GetActivePlayer = Nobody <=> IsRoundComplete
    /\ Waiting # {} => /\ GetActivePlayer \in Waiting
                       /\ \A q \in Waiting : GetActivePlayer <= q
    /\ last.op = "IsRoundComplete"
         => last.res = (Waiting = {}) /\ last.p = GetActivePlayer

\* the first player sits out, the second holds a blackjack, the third is
\* still to act: the answer is the third
C23_ThirdPlayerIsNext ==
    /\ Len(players) >= 3
    /\ ~players[1].active
    /\ players[2].active /\ IsBlackjack(CurrentHand(players[2]))
    /\ players[3].active /\ ~IsStanding(players[3])
    /\ last = [op |-> "IsRoundComplete", p |-> 3, res |-> FALSE]

---------------------------------------------------------------------------
(* A busted player hand *)

\* the evaluated player hand is over 21 with every Ace counted as 1
PlayerBustEvaluated ==
    last.op = "EvaluateHand" /\ LowTotal(CurrentHand(players[last.p]).cards) > 21

\* the dealer holds 21 in two cards
DealerNatural == Len(dealer.cards) = 2 /\ HandTotal(dealer.cards) = 21

\* C24 (as the code has it): a busted player hand evaluates to DealerWin
\* against every dealer hand but a blackjack, and to DealerBlackjack against
\* a dealer blackjack; it never evaluates to a win or a push
C24_BustLosesToAnyDealer ==
    PlayerBustEvaluated =>
        last.res = (IF DealerNatural THEN "DealerBlackjack" ELSE "DealerWin")

\* C24 (as stated): a busted player hand evaluates to DealerWin regardless of
\* the dealer's hand
C24_BustIsDealerWin == PlayerBustEvaluated => last.res = "DealerWin"

\* Ten, Ten, Six against a dealer blackjack
C24_BustAgainstBlackjack ==
    /\ PlayerBustEvaluated
    /\ CurrentHand(players[last.p]).cards = <<10, 10, 6>>
    /\ dealer.cards = <<Ace, King>>
    /\ last.res = "DealerBlackjack"

---------------------------------------------------------------------------
(* EvaluateHand reads only *)

EvaluateOps == {"EvaluateHand", "EvaluateHandAgain"}

\* a call of EvaluateHand that no hit came before: no hand got a card
EvaluateOnlyStep ==
    /\ last'.op \in EvaluateOps
    /\ dealer'.cards = dealer.cards
    /\ \A p \in PlayerIds :
         /\ Len(players'[p].hands) = Len(players[p].hands)
         /\ \A i \in 1..Len(players[p].hands) :
              players'[p].hands[i].cards = players[p].hands[i].cards

---------------------------------------------------------------------------
(* The round is complete *)

\* C26: whenever IsRoundComplete() is true, no active player has a hand that
\* is still playable (not busted, not a blackjack, not stood)
C26_CompleteLeavesNoHandWaiting ==
    IsRoundComplete =>
        \A p \in PlayerIds :
            players[p].active =>
                \A i \in 1..Len(players[p].hands) : ~Playable(players[p].hands[i])

---------------------------------------------------------------------------
(* Game.PlayerSplit: the two new cards *)

\* a call of Game.PlayerSplit that returned nil
PlayerSplitStep == last'.op = "PlayerSplit" /\ last'.res = "ok"

\* C27: after a successful PlayerSplit the hand that was split and the new
\* hand hold two cards each, two cards have left the shoe, and the cards of
\* every other hand of the player are as before, whatever the number of
\* hands the player held
C27_SplitHandsGetTheNewCards ==
    [][PlayerSplitStep =>
         LET p      == last'.p
             before == players[p]
             after  == players'[p]
             i      == Cur(before)
             n      == Len(before.hands)
         IN  /\ Len(after.hands) = n + 1
             /\ Len(after.hands[i].cards) = 2
             /\ Len(after.hands[n + 1].cards) = 2
             /\ Remaining(shoe') = Remaining(shoe) - 2
             /\ \A j \in 1..n : j # i => after.hands[j].cards = before.hands[j].cards]_vars

---------------------------------------------------------------------------
(* Game.PlayerStand *)

\* a call of Game.PlayerStand that returned nil
StandStep == last'.op = "PlayerStand" /\ last'.res = "ok"

\* a hand that can still be played: not busted, not a blackjack, not stood
StillPlayable(h) ==
    /\ LowTotal(h.cards) <= 21
    /\ ~(Len(h.cards) = 2 /\ HandTotal(h.cards) = 21 /\ ~h.isSplit)
    /\ ~h.isStood

---------------------------------------------------------------------------
(* The one card of a double down *)

\* Hand.DoubleDown has run on the hand: it logs a stand and then the double
Doubled(h) ==
    \E k \in 1..(Len(h.actions) - 1) :
        h.actions[k] = "stand" /\ h.actions[k + 1] = "double"

\* the doubled hand holds a card beyond the two it was doubled on
HasDoubleCard(h) == Doubled(h) /\ Len(h.cards) >= 3

\* C29: a hand that was doubled down gets exactly one more card before the
\* round is paid out, and once it has that card every PlayerHit and
\* PlayerDoubleDownHit on it is rejected and adds nothing
C29_DoubleTakesOneCard ==
    [][/\ \A p \in PlayerIds :
            /\ last'.op \in {"PlayerHit", "PlayerDoubleDownHit"}
            /\ last'.p = p
            /\ HasDoubleCard(CurrentHand(players[p]))
            => last'.res = "error" /\ UNCHANGED <<players, shoe>>
       /\ PayoutStep =>
            \A p \in PlayerIds : \A i \in 1..Len(players[p].hands) :
                Doubled(players[p].hands[i]) => Len(players[p].hands[i].cards) = 3]_vars

---------------------------------------------------------------------------
(* Game.PlayerSplit: failure *)

\* a call of Game.PlayerSplit that returned an error
PlayerSplitFailed == last'.op = "PlayerSplit" /\ last'.res = "error"

\* C30: a PlayerSplit that returns an error, the shoe running out while the
\* two new cards are dealt included, leaves the number of hands, the cards
\* and bets of every hand and the chips of every player as they were
C30_FailedSplitChangesNothing ==
    [][PlayerSplitFailed =>
         \A p \in PlayerIds :
             /\ players'[p].chips = players[p].chips
             /\ Len(players'[p].hands) = Len(players[p].hands)
             /\ \A i \in 1..Len(players[p].hands) :
                  /\ players'[p].hands[i].cards = players[p].hands[i].cards
                  /\ players'[p].hands[i].bet = players[p].hands[i].bet]_vars

---------------------------------------------------------------------------
(* Hand.PlaceBet: conservation *)

RECURSIVE SumOfBets(_)
\* the bets on a player's hands, added up
SumOfBets(hands) ==
    IF hands = <<>> THEN 0 ELSE Head(hands).bet + SumOfBets(Tail(hands))

\* what a player owns: the chips held and the chips staked
Holdings(pl) == pl.chips + SumOfBets(pl.hands)

PlaceBetStep == last'.op = "PlaceBet" /\ last'.res = "ok"

\* C31: a successful PlaceBet(amount) takes exactly amount from the chips,
\* makes amount the bet of the hand, and leaves chips plus the bets on all
\* the player's hands as they were, also when the hand already had a bet
C31_PlaceBetLeaksNoChips ==
    [][PlaceBetStep =>
         LET before == players[last'.p]
             after  == players'[last'.p]
             amount == CurrentHand(after).bet
         IN  /\ after.chips = before.chips - amount
             /\ Holdings(after) = Holdings(before)]_vars

---------------------------------------------------------------------------
(* Hand.IsSoft *)

\* C32: IsSoft() is true exactly when Value() counts an Ace as 11, that is
\* when Value() is at most 21 and 10 more than the total with every Ace
\* counted as 1
C32_SoftIffAceCountsEleven ==
    IsSoft(dealer.cards) <=>
        (Value(dealer.cards) <= 21 /\ Value(dealer.cards) = LowTotal(dealer.cards) + 10)

---------------------------------------------------------------------------
(* Game.DealerPlay, one iteration of its loop at a time: the table after   *)
(* StartNewRound and DealInitialCards, the players hit or split, then      *)
(* DealerPlay is called and runs its loop until it returns.                *)

\* one pass of DealInitialCards when every player is active
AllSeats == [i \in 1..(NumPlayers + 1) |-> IF i <= NumPlayers THEN i ELSE Nobody]

InitDealerPlay ==
    /\ \E fresh \in {NewShoe(NumDecks)} :
           \E out \in DealRuns([p \in PlayerIds |-> NewPlayer(StartChips)], NewHand,
                               fresh.cards, AllSeats \o AllSeats) :
             /\ ~out.err
             /\ players = out.players
             /\ dealer = out.dealer
             /\ shoe = [cards |-> out.cards, numDecks |-> fresh.numDecks,
                        cutCard |-> fresh.cutCard]
    /\ round = 1
    /\ last = [op |-> "DealInitialCards", p |-> Nobody, res |-> "ok"]
    /\ phase = [step |-> "play", payouts |-> 0]
    /\ orderly = TRUE
    /\ chips0 = [p \in PlayerIds |-> StartChips]

\* Game.PlayerHit in the players' turns
HitBeforeDealer(name) == phase.step = "play" /\ PlayerHit(name)

\* Game.PlayerSplit in the players' turns
SplitBeforeDealer(name) == phase.step = "play" /\ PlayerSplit(name)

\* the caller enters DealerPlay
DealerPlayCalled ==
    /\ phase.step = "play"
    /\ phase' = [phase EXCEPT !.step = "loop"]
    /\ last' = [op |-> "DealerPlay", p |-> Nobody, res |-> "running"]
    /\ UNCHANGED <<players, dealer, shoe, round, orderly, chips0>>

\* for bg.dealer.ShouldHit() { card, err := bg.shoe.Draw(); bg.dealer.Hit(card) }
DealerPlayDraws ==
    /\ phase.step = "loop"
    /\ ShouldHit(dealer)
    /\ ~IsEmpty(shoe)
    /\ \E r \in Fronts(shoe.cards) :
         /\ dealer' = DealerHit(dealer, r)
         /\ shoe' = [shoe EXCEPT !.cards = Drawn(@, r)]
    /\ UNCHANGED <<players, round, last, phase, orderly, chips0>>

\* if err != nil { return fmt.Errorf(...) }
DealerPlayFails ==
    /\ phase.step = "loop"
    /\ ShouldHit(dealer)
    /\ IsEmpty(shoe)
    /\ phase' = [phase EXCEPT !.step = "dealer"]
    /\ Returned("DealerPlay", Nobody, TRUE)
    /\ UNCHANGED <<players, dealer, shoe, round, orderly, chips0>>

\* bg.dealer.Stand(); return nil
DealerPlayStands ==
    /\ phase.step = "loop"
    /\ ~ShouldHit(dealer)
    /\ dealer' = DealerStand(dealer)
    /\ phase' = [phase EXCEPT !.step = "dealer"]
    /\ Returned("DealerPlay", Nobody, FALSE)
    /\ UNCHANGED <<players, shoe, round, orderly, chips0>>

\* what DealerPlay does once it is called
DealerPlayRuns == DealerPlayDraws \/ DealerPlayFails \/ DealerPlayStands

NextDealerPlay ==
    \/ \E name \in PlayerIds : HitBeforeDealer(name)
    \/ \E name \in PlayerIds : SplitBeforeDealer(name)
    \/ DealerPlayCalled
    \/ DealerPlayDraws
    \/ DealerPlayFails
    \/ DealerPlayStands

\* a call of DealerPlay runs on until it returns
SpecDealerPlay ==
    InitDealerPlay /\ [][NextDealerPlay]_vars /\ WF_vars(DealerPlayRuns)

---------------------------------------------------------------------------
(* Game.DealerPlay: termination and result *)

\* the dealer's hand got a card: one iteration of DealerPlay's loop has run
DealerDrew == dealer'.cards # dealer.cards

\* DealerPlay has returned nil
DealerPlayed == last.op = "DealerPlay" /\ last.res = "ok"

\* C33: a call of DealerPlay returns; each iteration of its loop runs only
\* while ShouldHit() is true and moves one card from the shoe to the
\* dealer's hand; when DealerPlay returns without error the dealer's hand
\* is stood, ShouldHit() is false and the dealer's value is at least 17
C33_DealerPlayTerminates ==
    /\ (phase.step = "loop") ~> (phase.step = "dealer")
    /\ [][DealerDrew =>
            /\ ShouldHit(dealer)
            /\ \E r \in ShoeRanks : dealer'.cards = Append(dealer.cards, r)
            /\ Remaining(shoe') = Remaining(shoe) - 1]_vars
    /\ [](DealerPlayed =>
            /\ dealer.isStood
            /\ ~ShouldHit(dealer)
            /\ Value(dealer.cards) >= 17)

\* DealerPlay returned nil after two iterations of its loop or more
C33_DealerDrewTwice == DealerPlayed /\ Len(dealer.cards) >= 4

---------------------------------------------------------------------------
(* The cards of a round, for a caller that also uses Game.DealCard: the    *)
(* round of Spec with the least bet, hits and stands as the players'       *)
(* calls, and DealCard called between any two of them.                     *)

\* the bet every player places
LeastBet == 1

NextCards ==
    \/ StartNewRound
    \/ \E p \in PlayerIds : CallPlaceBet(p, LeastBet)
    \/ DealInitialCards
    \/ GameDealCard
    \/ \E name \in PlayerIds : PlayerHit(name)
    \/ \E name \in PlayerIds : PlayerStand(name)
    \/ DealerPlay
    \/ PayoutResults

SpecCards == Init /\ [][NextCards]_vars

---------------------------------------------------------------------------
(* Shoe and hands: the cards of a round *)

RECURSIVE CardsIn(_)
\* the cards held in a sequence of hands
CardsIn(hands) ==
    IF hands = <<>> THEN 0 ELSE Len(Head(hands).cards) + CardsIn(Tail(hands))

RECURSIVE CardsOfPlayers(_)
\* the cards held by the players from p on
CardsOfPlayers(p) ==
    IF p > Len(players) THEN 0
    ELSE CardsIn(players[p].hands) + CardsOfPlayers(p + 1)

\* the cards on the table: in the players' hands and in the dealer's
CardsHeld == CardsOfPlayers(1) + Len(dealer.cards)

\* C34: between one StartNewRound and the next the pool of the shoe is
\* never replaced and loses exactly the cards the hands get; the pool, and
\* the pool together with the cards held in all hands, never exceeds
\* numDecks decks
C34_NoReshuffleInRound ==
    /\ [][~StartStep =>
            /\ \A r \in ShoeRanks : shoe'.cards[r] <= shoe.cards[r]
            /\ Remaining(shoe') + CardsHeld' = Remaining(shoe) + CardsHeld]_vars
    /\ [](/\ Remaining(shoe) <= FullPool(shoe)
          /\ Remaining(shoe) + CardsHeld <= FullPool(shoe))

---------------------------------------------------------------------------
(* A round on a shoe that earlier rounds have drawn from: StartNewRound    *)
(* found the cut card not reached and left the pool as it was.  The calls  *)
(* that draw are those of Spec.                                            *)

\* the pools earlier rounds may leave: any part of the full shoe
PartPools(numDecks) ==
    {pool \in [ShoeRanks -> 0..(numDecks * Max(PairCopies, Max(TenCopies, RankCopies)))] :
        \A r \in ShoeRanks : pool[r] <= FullShoe(numDecks)[r]}

InitUsedShoe ==
    /\ players = [p \in PlayerIds |-> NewPlayer(StartChips)]
    /\ dealer = NewHand
    /\ \E fresh \in {NewShoe(NumDecks)} :
         \E pool \in PartPools(fresh.numDecks) :
           /\ shoe = [cards |-> pool, numDecks |-> fresh.numDecks,
                      cutCard |-> fresh.cutCard]
           /\ ~NeedsReshuffle(shoe)
    /\ round = 1
    /\ last = [op |-> "StartNewRound", p |-> Nobody, res |-> "ok"]
    /\ phase = [step |-> "bet", payouts |-> 0]
    /\ orderly = TRUE
    /\ chips0 = [p \in PlayerIds |-> StartChips]

NextUsedShoe ==
    \/ \E p \in PlayerIds : CallPlaceBet(p, LeastBet)
    \/ DealInitialCards
    \/ \E name \in PlayerIds : PlayerHit(name)
    \/ \E p \in PlayerIds : CallDoubleDown(p)
    \/ \E name \in PlayerIds : PlayerDoubleDownHit(name)
    \/ \E name \in PlayerIds : PlayerSplit(name)
    \/ \E name \in PlayerIds : PlayerStand(name)
    \/ DealerPlay

SpecUsedShoe == InitUsedShoe /\ [][NextUsedShoe]_vars

---------------------------------------------------------------------------
(* Shoe exhaustion *)

\* the calls that draw from the shoe
DrawCalls ==
    {"DealInitialCards", "PlayerHit", "PlayerDoubleDownHit", "PlayerSplit", "DealerPlay"}

\* the cards a call needs at the least, from the state it is made in
CardsWanted(op, name) ==
    IF op = "DealInitialCards"
    THEN 2 * (Cardinality({p \in PlayerIds : players[p].active}) + 1)
    ELSE IF op = "DealerPlay" THEN (IF ShouldHit(dealer) THEN 1 ELSE 0)
    ELSE IF ~Found(name) THEN 0
    ELSE IF ~players[name].active THEN 0
    ELSE IF op = "PlayerHit" THEN (IF IsStanding(players[name]) THEN 0 ELSE 1)
    ELSE IF op = "PlayerSplit"
    THEN (IF PlayerCanSplit(players[name], Cur(players[name])) THEN 2 ELSE 0)
    ELSE 1

\* C35: a call of DealInitialCards, PlayerHit, PlayerDoubleDownHit,
\* PlayerSplit or DealerPlay that needs more cards than the pool holds
\* returns an error with the pool empty, the cards it took all in the hands
\* and no reshuffle; DealInitialCards does so whenever the pool holds fewer
\* than 2 x (active players + 1) cards, and DealerPlay whenever the dealer
\* should still hit
C35_ExhaustionIsReported ==
    [][last'.op \in DrawCalls =>
         /\ Remaining(shoe') + CardsHeld' = Remaining(shoe) + CardsHeld
         /\ \A r \in ShoeRanks : shoe'.cards[r] <= shoe.cards[r]
         /\ (CardsWanted(last'.op, last'.p) > Remaining(shoe) =>
               last'.res = "error" /\ Remaining(shoe') = 0)
         /\ (last'.op = "DealerPlay" /\ ShouldHit(dealer') =>
               last'.res = "error" /\ Remaining(shoe') = 0)]_vars

\* DealInitialCards ran out of cards after it dealt three
C35_DealRanOut ==
    /\ last.op = "DealInitialCards" /\ last.res = "error"
    /\ CardsHeld = 3 /\ Remaining(shoe) = 0

---------------------------------------------------------------------------
(* Hand.DoubleDown: once per hand *)

\* the number of times Hand.DoubleDown has run on the hand
RECURSIVE TimesDoubled(_)
TimesDoubled(actions) ==
    IF actions = <<>> THEN 0
    ELSE (IF Len(actions) >= 2 /\ actions[1] = "stand" /\ actions[2] = "double"
          THEN 1 ELSE 0) + TimesDoubled(Tail(actions))

\* C36: a DoubleDown on a hand that was doubled down before fails with an
\* error, so no hand is doubled down twice
C36_DoubleDownOnlyOnce ==
    /\ [][last'.op = "DoubleDown" /\ Doubled(CurrentHand(players[last'.p]))
            => last'.res = "error" /\ UNCHANGED players]_vars
    /\ [](\A p \in PlayerIds : \A i \in 1..Len(players[p].hands) :
            TimesDoubled(players[p].hands[i].actions) <= 1)

---------------------------------------------------------------------------
(* The players' calls after the dealer's turn *)

\* DealerPlay has returned nil in this round
DealerHasPlayed == phase.step = "dealer" /\ dealer.isStood

\* the calls a player acts with
ActingCalls == {"PlayerHit", "PlayerSplit", "PlayerDoubleDownHit", "PlayerSurrender"}

\* the cards of a player, hand by hand
CardsOf(pl) == [i \in 1..Len(pl.hands) |-> pl.hands[i].cards]

\* C37: once DealerPlay has returned without error, every PlayerHit,
\* PlayerSplit, PlayerDoubleDownHit and PlayerSurrender of the round is
\* rejected with an error and the players' hands keep their cards
C37_NoPlayAfterDealer ==
    [][DealerHasPlayed =>
         /\ last'.op \in ActingCalls => last'.res = "error"
         /\ ~StartStep => \A p \in PlayerIds : CardsOf(players'[p]) = CardsOf(players[p])]_vars

---------------------------------------------------------------------------
(* Hand.IsSurrendered *)

\* C38: IsSurrendered() is true exactly for the hands on which Surrender
\* has been performed, which are then stood, and false for every other hand
C38_SurrenderedIffSurrenderRan ==
    \A p \in PlayerIds : \A i \in 1..Len(players[p].hands) :
        LET h == players[p].hands[i]
        IN  /\ h.isSurrendered <=> Surrendered(h)
            /\ h.isSurrendered => h.isStood

---------------------------------------------------------------------------
(* Hand.WinBet on a player of its own: a new player places a bet and the   *)
(* bet is won at one of the multipliers PayoutResults uses, as             *)
(* TestChipManagerInterface does.                                          *)

\* the chips a new player may have, and so the highest bet
MaxStake == 26

\* the multipliers of PayoutResults, 1.5 and 1.0, as fractions
Multipliers == {[num |-> 3, den |-> 2], [num |-> 1, den |-> 1]}

InitWinBet ==
    /\ \E chips \in 1..MaxStake : players = [p \in PlayerIds |-> NewPlayer(chips)]
    /\ dealer = NewHand
    /\ shoe = NewShoe(NumDecks)
    /\ round = 0
    /\ last = [op |-> "NewPlayer", p |-> Nobody, res |-> [num |-> 0, den |-> 1]]
    /\ phase = [step |-> "new", payouts |-> 0]
    /\ orderly = FALSE
    /\ chips0 = [p \in PlayerIds |-> players[p].chips]

\* player.PlaceBet(amount) that succeeds
StakePlaced(p, amount) ==
    /\ phase.step = "new"
    /\ ~PlaceBetFails(players[p], amount)
    /\ players' = [players EXCEPT ![p] = PlaceBet(@, Cur(@), amount)]
    /\ last' = [op |-> "PlaceBet", p |-> p, res |-> [num |-> 0, den |-> 1]]
    /\ phase' = [phase EXCEPT !.step = "staked"]
    /\ UNCHANGED <<dealer, shoe, round, orderly, chips0>>

\* player.WinBet(multiplier)
StakeWon(p, m) ==
    /\ phase.step = "staked"
    /\ players' = [players EXCEPT ![p] = WinBet(@, Cur(@), m.num, m.den)]
    /\ last' = [op |-> "WinBet", p |-> p, res |-> m]
    /\ phase' = [phase EXCEPT !.step = "won"]
    /\ UNCHANGED <<dealer, shoe, round, orderly, chips0>>

NextWinBet ==
    \/ \E amount \in 1..MaxStake : StakePlaced(TestPlayer, amount)
    \/ \E m \in Multipliers : StakeWon(TestPlayer, m)

SpecWinBet == InitWinBet /\ [][NextWinBet]_vars

---------------------------------------------------------------------------
(* Hand.WinBet: whole chips *)

WinBetStep == last'.op = "WinBet"

\* b x num/den with the fraction dropped: the whole number w with
\* w <= b x num/den < w + 1
IsTruncated(w, b, num, den) == den * w <= b * num /\ b * num < den * (w + 1)

---------------------------------------------------------------------------
(* The calls that give a hand a card, call after call on one hand: the     *)
(* round has started, the player's hand is empty, and every card is of any *)
(* rank of the shoe, of which six decks hold more than a hand can take.    *)

\* the cards a hand is followed up to
HitCap == 24

\* the double-down cards a hand is followed up to
MaxDoubleCards == 1

\* the cards PlayerHit gave the hand
RECURSIVE Hits(_)
Hits(actions) ==
    IF actions = <<>> THEN 0
    ELSE (IF Head(actions) = "hit" THEN 1 ELSE 0) + Hits(Tail(actions))

\* the cards PlayerDoubleDownHit gave the hand
DoubleCards(h) == Len(h.cards) - Hits(h.actions)

InitHits ==
    /\ players = [p \in PlayerIds |-> NewPlayer(StartChips)]
    /\ dealer = NewHand
    /\ shoe = NewShoe(NumDecks)
    /\ round = 1
    /\ last = [op |-> "StartNewRound", p |-> Nobody, res |-> "ok"]
    /\ phase = [step |-> "hits", payouts |-> 0]
    /\ orderly = FALSE
    /\ chips0 = [p \in PlayerIds |-> StartChips]

\* Game.PlayerHit that draws a card
HitTaken(name, card) ==
    /\ players[name].active /\ ~IsStanding(players[name])
    /\ Len(CurrentHand(players[name]).cards) < HitCap
    /\ players' = [players EXCEPT ![name].hands[Cur(players[name])] = Hit(@, card)]
    /\ last' = [op |-> "PlayerHit", p |-> name, res |-> "ok"]
    /\ UNCHANGED <<dealer, shoe, round, phase, orderly, chips0>>

\* Game.PlayerHit that finds the player inactive or standing
HitRefused(name) ==
    /\ ~players[name].active \/ IsStanding(players[name])
    /\ last' = [op |-> "PlayerHit", p |-> name, res |-> "error"]
    /\ UNCHANGED <<players, dealer, shoe, round, phase, orderly, chips0>>

\* Game.PlayerDoubleDownHit that draws a card: it asks for an active player
DoubleCardTaken(name, card) ==
    /\ players[name].active
    /\ Len(CurrentHand(players[name]).cards) < HitCap
    /\ DoubleCards(CurrentHand(players[name])) < MaxDoubleCards
    /\ players' = [players EXCEPT
                      ![name].hands[Cur(players[name])] = DoubleDownHit(@, card)]
    /\ last' = [op |-> "PlayerDoubleDownHit", p |-> name, res |-> "ok"]
    /\ UNCHANGED <<dealer, shoe, round, phase, orderly, chips0>>

\* Game.PlayerStand on an active player
StandTaken(name) ==
    /\ players[name].active
    /\ players' = [players EXCEPT ![name] =
                      AdvanceOrFinish([@ EXCEPT !.hands[Cur(@)] = Stand(@)])]
    /\ last' = [op |-> "PlayerStand", p |-> name, res |-> "ok"]
    /\ UNCHANGED <<dealer, shoe, round, phase, orderly, chips0>>

NextHits ==
    \/ \E name \in PlayerIds, card \in ShoeRanks : HitTaken(name, card)
    \/ \E name \in PlayerIds : HitRefused(name)
    \/ \E name \in PlayerIds, card \in ShoeRanks : DoubleCardTaken(name, card)
    \/ \E name \in PlayerIds : StandTaken(name)

SpecHits == InitHits /\ [][NextHits]_vars

---------------------------------------------------------------------------
(* A bounded number of hits *)

\* C40: every accepted PlayerHit raises the total of the current hand with
\* Aces counted as 1, a PlayerHit on a busted current hand is rejected, no
\* hand takes more than 22 hits, and a player whose current hand is busted
\* can only stand: no call gives the hand another card
C40_HitsAreBounded ==
    /\ [][last'.op = "PlayerHit" =>
            LET before == CurrentHand(players[last'.p])
                after  == CurrentHand(players'[last'.p])
            IN  /\ last'.res = "ok" => LowTotal(after.cards) > LowTotal(before.cards)
                /\ IsBusted(before.cards) => last'.res = "error" /\ UNCHANGED players]_vars
    /\ [](\A p \in PlayerIds : \A i \in 1..Len(players[p].hands) :
            Hits(players[p].hands[i].actions) <= 22)
    /\ [][\A p \in PlayerIds :
            IsBusted(CurrentHand(players[p]).cards) =>
                CurrentHand(players'[p]).cards = CurrentHand(players[p]).cards]_vars

====
